---- MODULE Spec2Model ----
(***************************************************************************)
(* A model of the to-do list application:                                  *)
(*   - the parsing endpoint POST /api/parse-todo        (SpecParse)        *)
(*   - the status filter of filteredAndSortedTodos      (SpecView)         *)
(*   - its search and priority filter                   (SpecSearch)       *)
(*   - the row-level policies of public.todos           (SpecRLS)          *)
(*   - the HomePage handlers talking to the todos table (Spec)             *)
(*   - TodoForm on a loaded home page                   (SpecForm)         *)
(*   - the pages, the form and the sign-in, sign-up and                    *)
(*     sign-out handlers together                       (SpecApp)          *)
(* Korean string literals of the source are written as ASCII tokens; the   *)
(* token used for each literal is given where it is defined.               *)
(***************************************************************************)
EXTENDS Naturals, Integers, Sequences, FiniteSets, TLC

VARIABLES
  \* ---- parsing endpoint (one request through POST) ----
  reqBody,      \* what `await request.json()` is applied to
  apiKey,       \* process.env.GOOGLE_GENERATIVE_AI_API_KEY
  postPc,       \* where POST stands: received / awaitModel / awaitListing / done
  caughtError,  \* the value bound to `error` in the catch block
  response,     \* the NextResponse returned, or NoResponse
  modelCalls,   \* calls of generateObject made
  listCalls,    \* fetches of the provider's model list made
  listingResult,\* what the listing fetch did, "none" when there was none
  \* ---- the todos table ----
  db,           \* the rows of public.todos
  nextId,       \* the next value of gen_random_uuid() / NOW(), as a counter
  lastCall,     \* SpecRLS: the caller, request and result of the last request
  \* ---- HomePage ----
  session,      \* the user supabase.auth.getUser() answers with, NoUser when signed out
  page,         \* "mounting": the effect has not run; "home"; "login": redirected
  user,         \* useState<User | null>
  todos,        \* useState<Todo[]>
  isLoadingTodos,
  editingTodo,  \* useState<Todo | null>: <<>> or <<todo>>
  isFormLoading,
  calls,        \* the handler invocations waiting at an await, oldest first
  userActions,  \* how many times the user has clicked or submitted
  declined,     \* how many confirm() dialogs of each handler the user has declined
  fetchLog,     \* of the list fetches in flight: which were issued before one that
                \* has been applied since, and which tasks were patched locally
                \* after their answer was computed
  searchQuery,  \* useState of the search box
  statusFilter, \* useState<TodoStatus | "전체">
  priorityFilter, \* useState<TodoPriority | "전체">
  now,          \* the wall clock, in the unit of Date.getTime()
  filtered,     \* `filtered` of the useMemo before it is sorted, as last computed
  sortBy,       \* useState of the sort key
  shown,        \* filteredAndSortedTodos, as last computed
  \* ---- TodoForm ----
  formData,     \* useState<TodoInput>
  selectedCategories,
  aiInput,      \* the text of the AI textarea
  isAiGenerating,
  aiPc,         \* where handleAiGenerate stands, and its autoSubmit argument
  notices,      \* the toasts handleAiGenerate has shown since it was last started,
                \* and the alert of the onSubmit it has called
  \* ---- LoginPage, SignupPage and the logout of HomePage ----
  authCall,     \* the request to supabase.auth a handler waits for, or NoAuthCall
  isLoading,    \* useState of the login or signup page shown
  authError,    \* `error` of the login or signup page shown: <<>> or <<text>>
  successMessage,
  redirectTimer,\* the pending setTimeout of SignupPage: <<>> or <<target>>
  isLoggingOut

parseVars ==
  <<reqBody, apiKey, postPc, caughtError, response, modelCalls, listCalls, listingResult>>

tableVars == <<db, nextId>>

pageVars ==
  <<session, page, user, todos, isLoadingTodos, editingTodo, isFormLoading, calls, userActions,
    declined, fetchLog>>

viewVars == <<searchQuery, statusFilter, priorityFilter, now, filtered, sortBy, shown>>

formVars == <<formData, selectedCategories, aiInput, isAiGenerating, aiPc, notices>>

authVars == <<authCall, isLoading, authError, successMessage, redirectTimer, isLoggingOut>>

vars == <<parseVars, tableVars, lastCall, pageVars, viewVars, formVars, authVars>>

(***************************************************************************)
(* JavaScript values, as far as POST looks at them.  A string is the       *)
(* sequence of its pieces: single characters where the code looks into     *)
(* the string (trim), longer tokens where it only passes it on or          *)
(* concatenates it.                                                        *)
(***************************************************************************)
MaxInputLen == 2

Chars == {" ", "x"}

RECURSIVE StringsUpTo(_)
StringsUpTo(n) ==
  IF n = 0 THEN {<<>>}
  ELSE LET shorter == StringsUpTo(n - 1)
       IN  shorter \cup {Append(s, c) : s \in {t \in shorter : Len(t) = n - 1}, c \in Chars}

JsUndefined == [t |-> "undefined", v |-> <<>>]
JsNull      == [t |-> "null", v |-> <<>>]
JsBool(b)   == [t |-> "boolean", v |-> <<b>>]
JsNumber(n) == [t |-> "number", v |-> <<n>>]
JsObject    == [t |-> "object", v |-> <<>>]
JsString(s) == [t |-> "string", v |-> s]

\* typeof x
TypeOf(x) == IF x.t = "null" THEN "object" ELSE x.t

\* ToBoolean(x): what `!x` negates
Truthy(x) ==
  CASE x.t = "undefined" -> FALSE
    [] x.t = "null"      -> FALSE
    [] x.t = "boolean"   -> x.v = <<"true">>
    [] x.t = "number"    -> x.v # <<"0">>
    [] x.t = "string"    -> x.v # <<>>
    [] OTHER             -> TRUE

\* String.prototype.trim on a sequence of characters
RECURSIVE TrimStart(_)
TrimStart(s) == IF s # <<>> /\ Head(s) = " " THEN TrimStart(Tail(s)) ELSE s

RECURSIVE TrimEnd(_)
TrimEnd(s) ==
  IF s # <<>> /\ s[Len(s)] = " " THEN TrimEnd(SubSeq(s, 1, Len(s) - 1)) ELSE s

Trim(s) == TrimEnd(TrimStart(s))

InputValues ==
  {JsUndefined, JsNull, JsBool("false"), JsBool("true"), JsNumber("0"), JsNumber("5"), JsObject}
    \cup {JsString(s) : s \in StringsUpTo(MaxInputLen)}

(***************************************************************************)
(* Request bodies: text that is no JSON, the JSON value null, a JSON       *)
(* primitive or array (no property `input`), or a JSON object whose        *)
(* property `input` is any value (JsUndefined: the property is missing).   *)
(***************************************************************************)
Bodies ==
  {[k |-> "malformed", input |-> JsUndefined],
   [k |-> "null", input |-> JsUndefined],
   [k |-> "primitive", input |-> JsUndefined]}
    \cup {[k |-> "object", input |-> i] : i \in InputValues}

ApiKeys == {JsUndefined, JsString(<<>>), JsString(<<"x">>)}

(***************************************************************************)
(* TodoSchema (zod).  Category labels: work = "업무", personal = "개인",    *)
(* study = "학습"; "other" stands for any label outside the enum, "urgent" *)
(* for any priority outside the enum, Absent for a property left out.      *)
(***************************************************************************)
Absent == "absent"

Priorities == {"high", "medium", "low"}

Categories == {"work", "personal", "study"}

\* the objects the model answers with: every combination of date and time, and
\* every title, priority and category list with the other properties fixed
ModelOutputs ==
  [title    : {JsString(<<"x">>)},
   due_date : {JsUndefined, JsString(<<>>), JsString(<<"D">>)},
   due_time : {JsUndefined, JsString(<<>>), JsString(<<"HM">>)},
   priority : {"medium"},
   category : {{"work"}}]
    \cup
  [title    : {JsUndefined, JsString(<<>>), JsString(<<" ">>), JsString(<<"x">>)},
   due_date : {JsString(<<"D">>)},
   due_time : {JsUndefined},
   priority : {"high"},
   category : {{}}]
    \cup
  [title    : {JsString(<<"x">>)},
   due_date : {JsUndefined},
   due_time : {JsUndefined},
   priority : Priorities \cup {"urgent"},
   category : {{"personal", "study"}}]
    \cup
  [title    : {JsString(<<"x">>)},
   due_date : {JsUndefined},
   due_time : {JsString(<<"HM">>)},
   priority : {"low"},
   category : {{}, {"work"}, {"personal", "study"}, {"work", "other"}}]

TodoSchema(o) ==
  /\ TypeOf(o.title) = "string"
  /\ TypeOf(o.due_date) \in {"undefined", "string"}
  /\ TypeOf(o.due_time) \in {"undefined", "string"}
  /\ o.priority \in Priorities
  /\ o.category \subseteq Categories

(***************************************************************************)
(* Values generateObject can reject with.  isError: instanceof Error;      *)
(* isObject: typeof = "object" and not null; statusCode: the property,     *)
(* Absent when there is none.                                              *)
(***************************************************************************)
Messages == {"m1", "m2"}

ErrorValue(isError, isObject, statusCode, message) ==
  [isError |-> isError, isObject |-> isObject, statusCode |-> statusCode, message |-> message]

ModelErrors ==
  {ErrorValue(TRUE, TRUE, sc, m) : sc \in {Absent, "404", "500"}, m \in Messages}
    \cup {ErrorValue(FALSE, TRUE, sc, m) : sc \in {Absent, "404"}, m \in Messages}
    \cup {ErrorValue(FALSE, FALSE, Absent, m) : m \in Messages}

\* the SyntaxError of request.json() and the TypeError of destructuring null
BodyError == ErrorValue(TRUE, TRUE, Absent, "body")

\* the NoObjectGeneratedError of generateObject on an output the schema rejects
SchemaError == ErrorValue(TRUE, TRUE, Absent, "schema")

NoError == ErrorValue(FALSE, FALSE, Absent, "none")

(***************************************************************************)
(* Responses.  Error texts: "invalidInput" = "입력된 텍스트가 올바르지     *)
(* 않습니다.", "emptyInput" = "할 일 내용을 입력해주세요.", "notConfigured" *)
(* = "AI 서비스가 설정되지 않았습니다.", "parseFailed:" = "할 일 파싱 중    *)
(* 오류가 발생했습니다: ", "parseFailedUnknown" = "할 일 파싱 중 알 수       *)
(* 없는 오류가 발생했습니다."                                              *)
(***************************************************************************)
NoObject == [title |-> JsUndefined, due_date |-> JsUndefined, due_time |-> JsUndefined,
             priority |-> Absent, category |-> {}]

NoResponse == [status |-> 0, error |-> JsUndefined, object |-> NoObject]

ErrorResponse(status, text) ==
  [status |-> status, error |-> JsString(text), object |-> NoObject]

ObjectResponse(o) == [status |-> 200, error |-> JsUndefined, object |-> o]

\* a promise rejection that leaves POST: the request gets no response of the handler
Unanswered == [status |-> -1, error |-> JsUndefined, object |-> NoObject]

(***************************************************************************)
(* POST, lines 19-145.                                                     *)
(***************************************************************************)
\* line 21: `const { input } = await request.json()` throws on text that is no
\* JSON (SyntaxError) and on the JSON value null (TypeError)
BodyThrows(body) == body.k \in {"malformed", "null"}

\* line 21: the value bound to `input`
InputOf(body) == IF body.k = "object" THEN body.input ELSE JsUndefined

\* ValidationResponse without the check of the credential (lines 37-43 left out)
ValidationResponseNoKeyCheck(input, key) ==
  IF ~Truthy(input) \/ TypeOf(input) # "string"
    THEN ErrorResponse(400, <<"invalidInput">>)
  ELSE IF Len(Trim(input.v)) = 0
    THEN ErrorResponse(400, <<"emptyInput">>)
  ELSE NoResponse

\* lines 23-43: the response of the checks before the model call, NoResponse
\* when all of them pass
ValidationResponse(input, key) ==
  IF ~Truthy(input) \/ TypeOf(input) # "string"
    THEN ErrorResponse(400, <<"invalidInput">>)
  ELSE IF Len(Trim(input.v)) = 0
    THEN ErrorResponse(400, <<"emptyInput">>)
  ELSE IF ~Truthy(key)
    THEN ErrorResponse(500, <<"notConfigured">>)
  ELSE NoResponse

\* line 92
IsModelNotFound(error) == error.isObject /\ error.statusCode = "404"

\* CatchResponse rethrowing what is no Error instead of answering (lines 140-143)
CatchResponseRethrow(error) ==
  IF error.isError
    THEN ErrorResponse(500, <<"parseFailed:", error.message>>)
    ELSE Unanswered

\* lines 133-143
CatchResponse(error) ==
  IF error.isError
    THEN ErrorResponse(500, <<"parseFailed:", error.message>>)
    ELSE ErrorResponse(500, <<"parseFailedUnknown">>)

(***************************************************************************)
(* Lines 94-130: what the listing fetch can do.  "rejects": fetch throws;  *)
(* "notOk": a response with ok = false; "badJson": json() throws;          *)
(* "noModels": a body without an array `models`; "models": a well-formed   *)
(* list; "badModels": a list with an entry that makes the loop throw (null,*)
(* or an entry without a name).                                            *)
(***************************************************************************)
ListingOutcomes == {"rejects", "notOk", "badJson", "noModels", "models", "badModels"}

ListingThrows(outcome) == outcome \in {"rejects", "badJson", "badModels"}

\* the listing without its own try/catch (lines 94, 128-130 left out)
ListingErrorEscapesUncaught(outcome) == TRUE

\* lines 94, 128-130: everything thrown by the listing is caught and logged
ListingErrorEscapes(outcome) == FALSE

\* lines 94-143: the response after the listing has settled
AfterListing(error, outcome) ==
  IF ListingThrows(outcome) /\ ListingErrorEscapes(outcome)
    THEN Unanswered
    ELSE CatchResponse(error)

\* lines 88-144: the catch block up to its first await, or to its return
PostCatch(error) ==
  /\ caughtError' = error
  /\ IF IsModelNotFound(error)
       THEN /\ postPc' = "awaitListing"
            /\ listCalls' = listCalls + 1
            /\ response' = response
       ELSE /\ postPc' = "done"
            /\ listCalls' = listCalls
            /\ response' = CatchResponse(error)

\* lines 19-49: from the request to the call of generateObject, or to a response
PostBegin ==
  /\ postPc = "received"
  /\ IF BodyThrows(reqBody)
       THEN PostCatch(BodyError) /\ modelCalls' = modelCalls
       ELSE LET early == ValidationResponse(InputOf(reqBody), apiKey)
            IN  IF early # NoResponse
                  THEN /\ response' = early
                       /\ postPc' = "done"
                       /\ UNCHANGED <<caughtError, modelCalls, listCalls>>
                  ELSE /\ postPc' = "awaitModel"
                       /\ modelCalls' = modelCalls + 1
                       /\ UNCHANGED <<caughtError, response, listCalls>>
  /\ UNCHANGED <<reqBody, apiKey, listingResult>>
  /\ UNCHANGED <<tableVars, lastCall, authVars, pageVars, viewVars, formVars>>

\* lines 49-87: generateObject resolves; an output the schema rejects is thrown
GenerateObjectResolves ==
  /\ postPc = "awaitModel"
  /\ \E o \in ModelOutputs :
       IF TodoSchema(o)
         THEN /\ response' = ObjectResponse(o)
              /\ postPc' = "done"
              /\ UNCHANGED <<caughtError, listCalls>>
         ELSE PostCatch(SchemaError)
  /\ UNCHANGED <<reqBody, apiKey, modelCalls, listingResult>>
  /\ UNCHANGED <<tableVars, lastCall, authVars, pageVars, viewVars, formVars>>

\* lines 49, 88: generateObject rejects
GenerateObjectRejects ==
  /\ postPc = "awaitModel"
  /\ \E error \in ModelErrors : PostCatch(error)
  /\ UNCHANGED <<reqBody, apiKey, modelCalls, listingResult>>
  /\ UNCHANGED <<tableVars, lastCall, authVars, pageVars, viewVars, formVars>>

\* lines 95-143: the listing settles, and the catch block returns
ListModelsSettles ==
  /\ postPc = "awaitListing"
  /\ \E outcome \in ListingOutcomes :
       /\ response' = AfterListing(caughtError, outcome)
       /\ listingResult' = outcome
  /\ postPc' = "done"
  /\ UNCHANGED <<reqBody, apiKey, caughtError, modelCalls, listCalls>>
  /\ UNCHANGED <<tableVars, lastCall, authVars, pageVars, viewVars, formVars>>

InitParse ==
  /\ reqBody \in Bodies
  /\ apiKey \in ApiKeys
  /\ postPc = "received"
  /\ caughtError = NoError
  /\ response = NoResponse
  /\ modelCalls = 0
  /\ listCalls = 0
  /\ listingResult = "none"

NextParse ==
  \/ PostBegin
  \/ GenerateObjectResolves
  \/ GenerateObjectRejects
  \/ ListModelsSettles


(***************************************************************************)
(* Claims about the parsing endpoint, checked under SpecParse.             *)
(***************************************************************************)
\* the request carries no usable input: the body has no property `input` (it is
\* no JSON, is null, is a primitive, or is an object without it), or `input` is
\* no string, or is a string that is empty after trimming
InputMissingOrBad ==
  \/ reqBody.k # "object"
  \/ reqBody.input.t # "string"
  \/ \A i \in 1..Len(reqBody.input.v) : reqBody.input.v[i] = " "

CredentialAbsent == apiKey \in {JsUndefined, JsString(<<>>)}

IsErrorBody(r) == r.error.t = "string" /\ Len(r.error.v) > 0 /\ r.object = NoObject

\* generateObject was called and the call failed
ModelCallFailed == modelCalls = 1 /\ caughtError # NoError

\* C6: a request whose input is missing, is no string or is empty (blank
\* included) is answered 400 with an error body and causes no model call,
\* whatever the credential is.
C6_BadInputIs400 ==
  InputMissingOrBad =>
    /\ modelCalls = 0
    /\ postPc = "done" => (response.status = 400 /\ IsErrorBody(response))

\* C7: a request with a non-blank string input, while the credential is absent,
\* is answered 500 with an error body and causes no model call.
C7_NoCredentialIs500 ==
  (~InputMissingOrBad /\ CredentialAbsent) =>
    /\ modelCalls = 0
    /\ postPc \in {"received", "done"}
    /\ postPc = "done" => (response.status = 500 /\ IsErrorBody(response))

C7_Witness == ~InputMissingOrBad /\ CredentialAbsent /\ postPc = "done"

\* C8: every response is 200 with an object matching the schema, or 400 or 500
\* with a body {error: string}; a failed model call is answered 500, never 200
\* and never left without a response.
C8_ResponseShapes ==
  postPc = "done" =>
    /\ \/ /\ response.status = 200
          /\ response.error = JsUndefined
          /\ response.object.title.t = "string"
          /\ response.object.priority \in {"high", "medium", "low"}
          /\ response.object.category \subseteq {"work", "personal", "study"}
       \/ /\ response.status \in {400, 500}
          /\ IsErrorBody(response)
    /\ ModelCallFailed => response.status = 500

C8_Witness ==
  /\ postPc = "done"
  /\ ModelCallFailed
  /\ ~caughtError.isError
  /\ response.status = 500

\* C9: the body answered after a failed model call does not depend on the
\* message of the error: the same failure with any other message gets the same
\* body.
C9_GenericFailureMessage ==
  (postPc = "done" /\ ModelCallFailed) =>
    \A m \in Messages :
      CatchResponse([caughtError EXCEPT !.message = m]).error = response.error

\* C10: the model list is fetched only after a model call failed with
\* statusCode 404, and whatever the listing does (resolves, answers not-OK,
\* answers a malformed body, throws) the caller gets the 500 response that the
\* same error without the 404 gets; no listing on the 200 and 400 paths.
C10_ListingIsDiagnosticsOnly ==
  /\ listCalls \in {0, 1}
  /\ listCalls = 1 =>
       /\ ModelCallFailed
       /\ caughtError.isObject
       /\ caughtError.statusCode = "404"
  /\ (ModelCallFailed /\ postPc # "awaitModel") =>
       listCalls = (IF caughtError.isObject /\ caughtError.statusCode = "404" THEN 1 ELSE 0)
  /\ (postPc = "done" /\ listCalls = 1) =>
       /\ response.status = 500
       /\ response.object = NoObject
       /\ response.error =
            (IF caughtError.isError
               THEN JsString(<<"parseFailed:", caughtError.message>>)
               ELSE JsString(<<"parseFailedUnknown">>))
  /\ (postPc = "done" /\ response.status \in {200, 400}) => listCalls = 0

C10_Witness == postPc = "done" /\ listCalls = 1 /\ listingResult = "badModels"

\* C11: every 200 response carries a title, a priority of the three and a
\* category that is a non-empty subset of the three labels; an output with an
\* empty category is never answered as a success.
C11_SuccessHasCategory ==
  (postPc = "done" /\ response.status = 200) =>
    /\ response.object.title.t = "string"
    /\ response.object.priority \in Priorities
    /\ response.object.category \subseteq Categories
    /\ response.object.category # {}

(***************************************************************************)
(* public.todos and its row-level policies (schema file, lines 19-31 and   *)
(* 86-109), behind the PostgREST interface supabase-js talks to.           *)
(* A nullable column holds <<>> (NULL) or <<v>>.  created_at / updated_at  *)
(* are left out: no request of the application reads or filters on them.   *)
(***************************************************************************)
MaxId == 3

Me == "u1"

Other == "u2"

Users == {Me, Other}

Ids == 1..MaxId

Null == <<>>

Row(id, user_id, title, description, created_date, due_date, priority, category, completed) ==
  [id |-> id, user_id |-> user_id, title |-> title, description |-> description,
   created_date |-> created_date, due_date |-> due_date, priority |-> priority,
   category |-> category, completed |-> completed]

Columns ==
  {"id", "user_id", "title", "description", "created_date", "due_date", "priority",
   "category", "completed"}

\* a request: the verb, the .eq("id", v) and .eq("user_id", v) filters (<<>>: no
\* such filter), the columns the body sets, and the values it sets them to
Request(kind, eqId, eqUserId, sets, values) ==
  [kind |-> kind, eqId |-> eqId, eqUserId |-> eqUserId, sets |-> sets, values |-> values]

NoValues == Row(0, Me, <<>>, Null, 0, Null, Null, {}, FALSE)

\* CREATE POLICY "Users can view own todos" ... USING (auth.uid() = user_id)
ViewPolicy(uid, row) == uid = row.user_id

\* CREATE POLICY "Users can create own todos" ... WITH CHECK (auth.uid() = user_id)
CreatePolicy(uid, row) == uid = row.user_id

\* the table without its update policy restricting anything
UpdatePolicyPermissive(uid, row) == TRUE

\* CREATE POLICY "Users can update own todos" ... USING (auth.uid() = user_id);
\* a policy FOR UPDATE without WITH CHECK checks the new row with USING too
UpdatePolicy(uid, row) == uid = row.user_id

\* CREATE POLICY "Users can delete own todos" ... USING (auth.uid() = user_id)
DeletePolicy(uid, row) == uid = row.user_id

Matches(row, req) ==
  /\ req.eqId = Null \/ row.id = req.eqId[1]
  /\ req.eqUserId = Null \/ row.user_id = req.eqUserId[1]

\* the row with the columns the request sets replaced
Patched(row, req) ==
  [c \in Columns |-> IF c \in req.sets THEN req.values[c] ELSE row[c]]

\* the column defaults and constraints of CREATE TABLE public.todos
Inserted(req, id) ==
  [c \in Columns |->
     CASE c = "id"           -> id
       [] c = "created_date" -> id
       [] c \in req.sets     -> req.values[c]
       [] c = "priority"     -> <<"medium">>
       [] c = "category"     -> {}
       [] c = "completed"    -> FALSE
       [] OTHER              -> Null]

\* CHECK (priority IN ('high', 'medium', 'low')); a NULL passes a CHECK
TableConstraints(row) == row.priority = Null \/ row.priority[1] \in Priorities

Result(error, rows) == [error |-> error, rows |-> rows]

(***************************************************************************)
(* What a request by the caller `uid` returns and leaves in the table.     *)
(***************************************************************************)
\* an UPDATE or DELETE whose WHERE clause reads columns also needs the SELECT policy
ReadsRows(req) == req.eqId # Null \/ req.eqUserId # Null

Targets(table, uid, req) ==
  CASE req.kind = "select" -> {r \in table : ViewPolicy(uid, r) /\ Matches(r, req)}
    [] req.kind = "update" ->
         {r \in table : /\ ReadsRows(req) => ViewPolicy(uid, r)
                        /\ UpdatePolicy(uid, r)
                        /\ Matches(r, req)}
    [] req.kind = "delete" ->
         {r \in table : /\ ReadsRows(req) => ViewPolicy(uid, r)
                        /\ DeletePolicy(uid, r)
                        /\ Matches(r, req)}
    [] OTHER -> {}

Rejected(table, uid, req, id) ==
  CASE req.kind = "insert" ->
         \/ "user_id" \notin req.sets
         \/ "title" \notin req.sets
         \/ ~CreatePolicy(uid, Inserted(req, id))
         \/ ~TableConstraints(Inserted(req, id))
    [] req.kind = "update" ->
         \E r \in Targets(table, uid, req) :
           ~UpdatePolicy(uid, Patched(r, req)) \/ ~TableConstraints(Patched(r, req))
    [] OTHER -> FALSE

TableAfter(table, uid, req, id) ==
  IF Rejected(table, uid, req, id) THEN table
  ELSE CASE req.kind = "insert" -> table \cup {Inserted(req, id)}
         [] req.kind = "update" ->
              (table \ Targets(table, uid, req))
                \cup {Patched(r, req) : r \in Targets(table, uid, req)}
         [] req.kind = "delete" -> table \ Targets(table, uid, req)
         [] OTHER -> table

\* .order("created_date", { ascending: false })
RECURSIVE OrderByCreatedDesc(_)
OrderByCreatedDesc(rows) ==
  IF rows = {} THEN <<>>
  ELSE LET first == CHOOSE r \in rows : \A q \in rows : q.created_date <= r.created_date
       IN  <<first>> \o OrderByCreatedDesc(rows \ {first})

\* rows a select returns; the mutations of the application ask for none back
ResultOf(table, uid, req, id) ==
  IF Rejected(table, uid, req, id) THEN Result(TRUE, <<>>)
  ELSE Result(FALSE, IF req.kind = "select"
                       THEN OrderByCreatedDesc(Targets(table, uid, req))
                       ELSE <<>>)

(***************************************************************************)
(* SpecRLS: any authenticated caller sends any request to the table.       *)
(***************************************************************************)
InitialRows ==
  {Row(1, Other, <<"x">>, Null, 1, Null, <<"medium">>, {}, FALSE),
   Row(2, Me, <<"x">>, Null, 2, <<<<"1">>>>, <<"medium">>, {}, FALSE)}

InitTable ==
  /\ db = InitialRows
  /\ nextId = Cardinality(InitialRows) + 1

\* .eq("id", v) for the id of a row the table starts with, or no such filter
Filters == {Null} \cup {<<r.id>> : r \in InitialRows}

OwnerFilters == {Null} \cup {<<u>> : u \in Users}

AnyRequests ==
  {Request("select", i, u, {}, NoValues) : i \in Filters, u \in OwnerFilters}
    \cup {Request("delete", i, u, {}, NoValues) : i \in Filters, u \in OwnerFilters}
    \cup {Request("update", i, u, {"completed"}, [NoValues EXCEPT !.completed = TRUE]) :
            i \in Filters, u \in OwnerFilters}
    \cup {Request("update", i, u, {"user_id"}, [NoValues EXCEPT !.user_id = w]) :
            i \in Filters, u \in OwnerFilters, w \in Users}
    \cup {Request("insert", Null, Null, {"user_id", "title"},
                  [NoValues EXCEPT !.user_id = w, !.title = <<"x", "x">>]) : w \in Users}
    \cup {Request("insert", Null, Null, {"title"}, [NoValues EXCEPT !.title = <<"x", "x">>])}

NoCall == [uid |-> Me, req |-> Request("none", Null, Null, {}, NoValues),
           result |-> Result(FALSE, <<>>)]

AnyCall ==
  \E uid \in Users, req \in AnyRequests :
    /\ req.kind = "insert" => nextId <= MaxId
    /\ db' = TableAfter(db, uid, req, nextId)
    /\ nextId' = IF db' # db /\ req.kind = "insert" THEN nextId + 1 ELSE nextId
    /\ lastCall' = [uid |-> uid, req |-> req, result |-> ResultOf(db, uid, req, nextId)]
  /\ UNCHANGED <<parseVars, pageVars, viewVars, formVars, authVars>>

(***************************************************************************)
(* HomePage (src/app/page.tsx).  A handler that has reached an await is a  *)
(* call record: the handler, the await it stands at, the request it sent,  *)
(* whether the answer is back, and what it captured when it was invoked.   *)
(***************************************************************************)
MaxCalls == 2

MaxUserActions == 2

Slots == 1..MaxCalls

NoUser == "none"

NoRequest == Request("none", Null, Null, {}, NoValues)

\* the `data` of a handler other than handleSubmit
NoData ==
  [title |-> <<>>, description |-> <<>>, due_date |-> <<>>, priority |-> <<>>, category |-> <<>>]

\* n numbers the invocations: 0 for the effect, then the count of user actions;
\* data is the argument of handleSubmit; after is, for a list fetch, the
\* invocations whose list fetch was in flight when this one was issued
Call(n, h, pc, req, state, result, id, editingId) ==
  [n |-> n, h |-> h, pc |-> pc, req |-> req, state |-> state, result |-> result, id |-> id,
   editingId |-> editingId, data |-> NoData, after |-> {}]

Sent(n, h, pc, req, id, editingId) ==
  Call(n, h, pc, req, "sent", Result(FALSE, <<>>), id, editingId)

Range(seq) == {seq[i] : i \in 1..Len(seq)}

\* the invocations that wait for the answer of a list fetch
PendingFetches == {c.n : c \in {d \in Range(calls) : d.pc = "fetch"}}

NoFetchLog == [superseded |-> {}, undoes |-> {}]

\* lines 269-272 and 324: the list is patched for the task `id`; the fetches
\* whose answer was computed before are noted
LogPatch(id) ==
  [fetchLog EXCEPT !.undoes =
     @ \cup {<<c.n, id>> : c \in {d \in Range(calls) : /\ d.pc = "fetch"
                                                       /\ d.state = "answered"
                                                       /\ ~d.result.error}}]

\* line 103: the answer of the fetch at index s is applied (unless it is an
\* error); the fetches in flight that were issued before it are noted, and the
\* notes about this one are dropped
LogFetched(s) ==
  [superseded |-> (IF calls[s].result.error
                     THEN fetchLog.superseded
                     ELSE fetchLog.superseded \cup (calls[s].after \cap PendingFetches))
                    \ {calls[s].n},
   undoes |-> {p \in fetchLog.undoes : p[1] # calls[s].n}]

\* the calls without the one at index s
Finished(s) == [i \in 1..(Len(calls) - 1) |-> IF i < s THEN calls[i] ELSE calls[i + 1]]

\* confirm() has answered: one more declined of handler h declined when the answer
\* is false
Confirm(h, answer) == IF answer THEN declined ELSE [declined EXCEPT ![h] = @ + 1]

NoneDeclined == [delete |-> 0, logout |-> 0]

\* one more handler may be waiting, and the user may act once more
MayStart == Len(calls) < MaxCalls /\ userActions < MaxUserActions

TodoIds(list) == {list[i].id : i \in 1..Len(list)}

\* todos.find((t) => t.id === id), for an id that is in the list
Find(list, id) == list[CHOOSE i \in 1..Len(list) : list[i].id = id /\ \A j \in 1..(i - 1) : list[j].id # id]

(***************************************************************************)
(* TodoInput (src/types/todo.ts, lines 29-35).  An optional property is    *)
(* <<>> when undefined and <<v>> otherwise.                                *)
(***************************************************************************)
TodoInputs ==
  {[title |-> <<"x">>, description |-> <<>>, due_date |-> <<<<>>>>, priority |-> <<>>,
    category |-> <<>>],
   [title |-> <<"x", "x">>, description |-> <<<<"d">>>>, due_date |-> <<<<"1">>>>,
    priority |-> <<"high">>,
    category |-> <<{"work"}>>]}

\* x || null, for an optional string
OrNull(opt) == IF opt # <<>> /\ opt[1] # <<>> THEN opt ELSE Null

\* data.priority passed on as it is (`|| "medium"` left out): null when absent
PriorityAsGiven(opt) == IF opt # <<>> /\ opt[1] # "" THEN opt ELSE Null

\* data.priority || "medium"
PriorityOrMedium(opt) == IF opt # <<>> /\ opt[1] # "" THEN opt ELSE <<"medium">>

\* data.category || []
CategoryOrEmpty(opt) == IF opt # <<>> THEN opt[1] ELSE {}

FormColumns == {"title", "description", "due_date", "priority", "category"}

FormValues(data) ==
  [NoValues EXCEPT !.title = data.title,
                   !.description = OrNull(data.description),
                   !.due_date = OrNull(data.due_date),
                   !.priority = PriorityOrMedium(data.priority),
                   !.category = CategoryOrEmpty(data.category)]

\* lines 93-97
FetchRequest(userId) == Request("select", Null, <<userId>>, {}, NoValues)

\* lines 88-97: fetchTodos(userId) called by the invocation n of handler h, up
\* to its await
FetchSent(n, h, userId, id) ==
  [Sent(n, h, "fetch", FetchRequest(userId), id, Null) EXCEPT !.after = PendingFetches]

\* the update also writing created_date (one more property in the object of
\* lines 200-206)
UpdateRequestTouchesCreated(data, editing, usr) ==
  Request("update", <<editing.id>>, <<usr>>, FormColumns \cup {"created_date"},
          FormValues(data))

\* lines 198-208
UpdateRequest(data, editing, usr) ==
  Request("update", <<editing.id>>, <<usr>>, FormColumns, FormValues(data))

\* lines 217-225
InsertRequest(data, usr) ==
  Request("insert", Null, Null, FormColumns \cup {"user_id", "completed"},
          [FormValues(data) EXCEPT !.user_id = usr, !.completed = FALSE])

\* the toggle's update without .eq("user_id", user.id) (line 263 left out)
ToggleRequestUnscoped(todo, usr) ==
  Request("update", <<todo.id>>, Null, {"completed"},
          [NoValues EXCEPT !.completed = ~todo.completed])

\* lines 259-263
ToggleRequest(todo, usr) ==
  Request("update", <<todo.id>>, <<usr>>, {"completed"},
          [NoValues EXCEPT !.completed = ~todo.completed])

\* lines 313-317
DeleteRequest(id, usr) == Request("delete", <<id>>, <<usr>>, {}, NoValues)

\* the local patch leaving the flag as it is (line 271 without the negation)
FlipCompletedKeeps(list, id) == list

\* line 271: prev.map((t) => (t.id === id ? { ...t, completed: !t.completed } : t))
FlipCompleted(list, id) ==
  [i \in 1..Len(list) |->
     IF list[i].id = id THEN [list[i] EXCEPT !.completed = ~list[i].completed] ELSE list[i]]

\* line 324: prev.filter((todo) => todo.id !== id)
RECURSIVE WithoutId(_, _)
WithoutId(list, id) ==
  IF list = <<>> THEN <<>>
  ELSE IF Head(list).id = id THEN WithoutId(Tail(list), id)
  ELSE <<Head(list)>> \o WithoutId(Tail(list), id)

\* lines 63-83: the effect; getUser answers with the session's user
CheckUserAndFetchTodos ==
  /\ page = "mounting"
  /\ IF session = NoUser
       THEN /\ page' = "login"
            /\ UNCHANGED <<user, isLoadingTodos, calls>>
       ELSE /\ page' = "home"
            /\ user' = session
            /\ isLoadingTodos' = TRUE
            /\ calls' = Append(calls, FetchSent(0, "mount", session, 0))
  /\ UNCHANGED <<session, todos, editingTodo, isFormLoading, userActions, tableVars>>
  /\ UNCHANGED <<parseVars, lastCall, authVars, declined, fetchLog, viewVars, formVars>>

\* the table executes the request of a call, as the session's user
Serve(s) ==
  /\ s <= Len(calls)
  /\ calls[s].state = "sent"
  /\ calls[s].req.kind = "insert" => nextId <= MaxId
  /\ db' = TableAfter(db, session, calls[s].req, nextId)
  /\ nextId' = IF db' # db /\ calls[s].req.kind = "insert" THEN nextId + 1 ELSE nextId
  /\ calls' = [calls EXCEPT ![s].state = "answered",
                            ![s].result = ResultOf(db, session, calls[s].req, nextId)]
  /\ UNCHANGED <<session, page, user, todos, isLoadingTodos, editingTodo, isFormLoading,
                 userActions>>
  /\ UNCHANGED <<parseVars, lastCall, authVars, declined, fetchLog, viewVars, formVars>>

\* the request fails before the table executes it (`error` is set)
Fail(s) ==
  /\ s <= Len(calls)
  /\ calls[s].state = "sent"
  /\ calls' = [calls EXCEPT ![s].state = "answered", ![s].result = Result(TRUE, <<>>)]
  /\ UNCHANGED <<session, page, user, todos, isLoadingTodos, editingTodo, isFormLoading,
                 userActions, tableVars>>
  /\ UNCHANGED <<parseVars, lastCall, authVars, declined, fetchLog, viewVars, formVars>>

\* FetchTodosResume keeping the local entries of a list that is not empty
\* (line 103 merging instead of replacing)
FetchTodosResumeKeepsLocal(s) ==
  /\ s <= Len(calls)
  /\ calls[s].pc = "fetch"
  /\ calls[s].state = "answered"
  /\ todos' = IF calls[s].result.error \/ todos # <<>> THEN todos ELSE calls[s].result.rows
  /\ isLoadingTodos' = FALSE
  /\ isFormLoading' = IF calls[s].h = "submit" THEN FALSE ELSE isFormLoading
  /\ calls' = Finished(s)
  /\ fetchLog' = LogFetched(s)
  /\ UNCHANGED <<session, page, user, editingTodo, userActions, tableVars>>
  /\ UNCHANGED <<parseVars, lastCall, authVars, declined, viewVars, formVars>>

\* FetchTodosResume sending the select again when it has failed (a retry in
\* the catch of lines 104-106)
FetchTodosResumeRetries(s) ==
  /\ s <= Len(calls)
  /\ calls[s].pc = "fetch"
  /\ calls[s].state = "answered"
  /\ UNCHANGED todos
  /\ isLoadingTodos' = IF calls[s].result.error THEN TRUE ELSE FALSE
  /\ isFormLoading' = IF calls[s].h = "submit" THEN FALSE ELSE isFormLoading
  /\ calls' = IF calls[s].result.error
                THEN [calls EXCEPT ![s].state = "sent", ![s].result = Result(FALSE, <<>>)]
                ELSE Finished(s)
  /\ fetchLog' = LogFetched(s)
  /\ UNCHANGED <<session, page, user, editingTodo, userActions, tableVars>>
  /\ UNCHANGED <<parseVars, lastCall, authVars, declined, viewVars, formVars>>

\* lines 88-110 from the await on, and what the caller does after fetchTodos
\* returns (line 238 for handleSubmit)
FetchTodosResume(s) ==
  /\ s <= Len(calls)
  /\ calls[s].pc = "fetch"
  /\ calls[s].state = "answered"
  /\ todos' = IF calls[s].result.error THEN todos ELSE calls[s].result.rows
  /\ isLoadingTodos' = FALSE
  /\ isFormLoading' = IF calls[s].h = "submit" THEN FALSE ELSE isFormLoading
  /\ calls' = Finished(s)
  /\ fetchLog' = LogFetched(s)
  /\ UNCHANGED <<session, page, user, editingTodo, userActions, tableVars>>
  /\ UNCHANGED <<parseVars, lastCall, authVars, declined, viewVars, formVars>>

\* lines 186-230 up to the await of the update or insert: the handleSubmit of
\* a render in which editingTodo was `editing`, called with data by the
\* invocation numbered n (user is set on the home page)
HandleSubmitOf(n, data, editing) ==
  /\ page = "home"
  /\ Len(calls) < MaxCalls
  /\ isFormLoading' = TRUE
  /\ calls' = Append(calls, [Sent(n, "submit", "save",
                                  IF editing # Null
                                    THEN UpdateRequest(data, editing[1], user)
                                    ELSE InsertRequest(data, user),
                                  0, Null) EXCEPT !.data = data])
  /\ UNCHANGED <<session, page, user, todos, isLoadingTodos, editingTodo, tableVars>>

\* the handleSubmit of the current render
OnSubmit(n, data) == HandleSubmitOf(n, data, editingTodo)

\* the form calls onSubmit with some data (its submit button is disabled while
\* isLoading)
HandleSubmit(data) ==
  /\ ~isFormLoading
  /\ MayStart
  /\ userActions' = userActions + 1
  /\ OnSubmit(userActions + 1, data)
  /\ UNCHANGED <<parseVars, lastCall, authVars, declined, fetchLog, viewVars, formVars>>

\* lines 210-240 from the await on, up to the await inside fetchTodos; the
\* alert of line 236 ("saveFailed" = "할 일을 저장하는 중 오류가 발생했습니다.")
\* is noted when handleSubmit was called by handleAiGenerate
HandleSubmitResume(s) ==
  /\ s <= Len(calls)
  /\ calls[s].h = "submit"
  /\ calls[s].pc = "save"
  /\ calls[s].state = "answered"
  /\ IF calls[s].result.error
       THEN /\ isFormLoading' = FALSE
            /\ calls' = Finished(s)
            /\ notices' = IF aiPc.at = "submit" /\ aiPc.n = calls[s].n
                             THEN Append(notices, <<"saveFailed">>)
                             ELSE notices
            /\ UNCHANGED <<editingTodo, isLoadingTodos>>
       ELSE /\ editingTodo' = IF calls[s].req.kind = "update" THEN Null ELSE editingTodo
            /\ isLoadingTodos' = TRUE
            /\ calls' = [calls EXCEPT ![s] = FetchSent(calls[s].n, "submit", user, 0)]
            /\ UNCHANGED <<isFormLoading, notices>>
  /\ UNCHANGED <<session, page, user, todos, userActions, tableVars>>
  /\ UNCHANGED <<formData, selectedCategories, aiInput, isAiGenerating, aiPc>>
  /\ UNCHANGED <<parseVars, lastCall, authVars, declined, fetchLog, viewVars>>

\* lines 245-263: the checkbox of a rendered card, up to the await of the update
HandleToggleComplete(id) ==
  /\ page = "home"
  /\ ~isLoadingTodos
  /\ id \in TodoIds(todos)
  /\ MayStart
  /\ userActions' = userActions + 1
  /\ calls' = Append(calls, Sent(userActions + 1, "toggle", "save",
                                 ToggleRequest(Find(todos, id), user), id, Null))
  /\ UNCHANGED <<session, page, user, todos, isLoadingTodos, editingTodo, isFormLoading,
                 tableVars>>
  /\ UNCHANGED <<parseVars, lastCall, authVars, declined, fetchLog, viewVars, formVars>>

\* lines 265-280 from the await on, up to the await inside fetchTodos
HandleToggleCompleteResume(s) ==
  /\ s <= Len(calls)
  /\ calls[s].h = "toggle"
  /\ calls[s].pc = "save"
  /\ calls[s].state = "answered"
  /\ IF calls[s].result.error
       THEN /\ isLoadingTodos' = TRUE
            /\ calls' = [calls EXCEPT ![s] =
                           FetchSent(calls[s].n, "toggle", user, calls[s].id)]
            /\ UNCHANGED <<todos, fetchLog>>
       ELSE /\ todos' = FlipCompleted(todos, calls[s].id)
            /\ fetchLog' = LogPatch(calls[s].id)
            /\ calls' = Finished(s)
            /\ UNCHANGED isLoadingTodos
  /\ UNCHANGED <<session, page, user, editingTodo, isFormLoading, userActions, tableVars>>
  /\ UNCHANGED <<parseVars, lastCall, authVars, declined, viewVars, formVars>>

\* lines 286-288: the edit button of a rendered card (disabled on a completed one)
OnEdit(id) ==
  /\ page = "home"
  /\ ~isLoadingTodos
  /\ id \in TodoIds(todos)
  /\ ~Find(todos, id).completed
  /\ userActions < MaxUserActions
  /\ userActions' = userActions + 1
  /\ editingTodo' = <<Find(todos, id)>>
  /\ UNCHANGED <<session, page, user, todos, isLoadingTodos, isFormLoading, calls, tableVars>>

HandleEdit(id) ==
  /\ OnEdit(id)
  /\ UNCHANGED <<parseVars, lastCall, authVars, declined, fetchLog, viewVars, formVars>>

\* lines 293-295: the cancel button, rendered while editing, disabled while saving
HandleCancelEdit ==
  /\ page = "home"
  /\ editingTodo # Null
  /\ ~isFormLoading
  /\ userActions < MaxUserActions
  /\ userActions' = userActions + 1
  /\ editingTodo' = Null
  /\ UNCHANGED <<session, page, user, todos, isLoadingTodos, isFormLoading, calls, tableVars>>
  /\ UNCHANGED <<parseVars, lastCall, authVars, declined, fetchLog, viewVars, formVars>>

\* handleDelete sending the delete whatever confirm() answers (lines 306-308
\* left out)
HandleDeleteUnconfirmed(id, confirmed) ==
  /\ page = "home"
  /\ ~isLoadingTodos
  /\ id \in TodoIds(todos)
  /\ MayStart
  /\ userActions' = userActions + 1
  /\ declined' = Confirm("delete", confirmed)
  /\ UNCHANGED fetchLog
  /\ calls' = Append(calls, Sent(userActions + 1, "delete", "save",
                                 DeleteRequest(id, user), id,
                                 IF editingTodo = Null THEN Null
                                 ELSE <<editingTodo[1].id>>))
  /\ UNCHANGED <<session, page, user, todos, isLoadingTodos, editingTodo, isFormLoading,
                 tableVars>>
  /\ UNCHANGED <<parseVars, lastCall, authVars, viewVars, formVars>>

\* lines 300-317: the delete button of a rendered card, up to the await
HandleDelete(id, confirmed) ==
  /\ page = "home"
  /\ ~isLoadingTodos
  /\ id \in TodoIds(todos)
  /\ MayStart
  /\ userActions' = userActions + 1
  /\ declined' = Confirm("delete", confirmed)
  /\ UNCHANGED fetchLog
  /\ calls' = IF confirmed
                THEN Append(calls, Sent(userActions + 1, "delete", "save",
                                        DeleteRequest(id, user), id,
                                        IF editingTodo = Null THEN Null
                                        ELSE <<editingTodo[1].id>>))
                ELSE calls
  /\ UNCHANGED <<session, page, user, todos, isLoadingTodos, editingTodo, isFormLoading,
                 tableVars>>
  /\ UNCHANGED <<parseVars, lastCall, authVars, viewVars, formVars>>

\* lines 319-332 from the await on
HandleDeleteResume(s) ==
  /\ s <= Len(calls)
  /\ calls[s].h = "delete"
  /\ calls[s].state = "answered"
  /\ IF calls[s].result.error
       THEN UNCHANGED <<todos, editingTodo, fetchLog>>
       ELSE /\ todos' = WithoutId(todos, calls[s].id)
            /\ fetchLog' = LogPatch(calls[s].id)
            /\ editingTodo' = IF calls[s].editingId = <<calls[s].id>> THEN Null ELSE editingTodo
  /\ calls' = Finished(s)
  /\ UNCHANGED <<session, page, user, isLoadingTodos, isFormLoading, userActions, tableVars>>
  /\ UNCHANGED <<parseVars, lastCall, authVars, declined, viewVars, formVars>>

InitPage ==
  /\ session \in {NoUser, Me}
  /\ page = "mounting"
  /\ user = NoUser
  /\ todos = <<>>
  /\ isLoadingTodos = TRUE
  /\ editingTodo = Null
  /\ isFormLoading = FALSE
  /\ calls = <<>>
  /\ userActions = 0
  /\ declined = NoneDeclined
  /\ fetchLog = NoFetchLog

(***************************************************************************)
(* TodoForm (src/components/todo/TodoForm.tsx), rendered by HomePage with  *)
(* initialData = editingTodo, onSubmit = handleSubmit, isLoading =         *)
(* isFormLoading.  Toast texts: "aiInputEmpty" = "할 일 내용을              *)
(* 입력해주세요.", "aiCreated" = "AI가 할 일을 생성했습니다!", "added" =     *)
(* "할 일이 추가되었습니다!", "aiCreatedConfirm" = "AI가 할 일을            *)
(* 생성했습니다! 확인 후 추가 버튼을 눌러주세요.", "generateFailed" =       *)
(* "할 일 생성에 실패했습니다."; "fetchFailed" is the message of the error  *)
(* a rejected fetch throws.  The parse results of the model carry no       *)
(* description.                                                            *)
(***************************************************************************)
\* lines 44-50 and 125-131
EmptyForm ==
  [title |-> <<>>, description |-> <<>>, due_date |-> <<>>, priority |-> "medium",
   category |-> {}]

\* editing: the editingTodo of the render whose button was clicked, which the
\* onSubmit that handleAiGenerate calls has closed over
AiIdle == [at |-> "idle", autoSubmit |-> FALSE, n |-> 0, editing |-> <<>>]

\* what the user types into the title, and into the AI textarea
FormTitles == {<<>>, <<" ">>, <<"x">>}

AiTexts == {<<>>, <<" ">>, <<" ", "x">>}

\* the changes of one field the user makes through handleChange
FormEdits ==
  {<<"title", t>> : t \in FormTitles}
    \cup {<<"priority", "high">>, <<"due_date", <<"1">>>>}

\* a TodoInput whose properties are all set, as the form passes it to onSubmit
FormInput(fd, cats) ==
  [title |-> fd.title, description |-> <<fd.description>>, due_date |-> <<fd.due_date>>,
   priority |-> <<fd.priority>>, category |-> <<cats>>]

\* line 68: new Date(due).toISOString().slice(0, 16), the timestamp rendered in
\* UTC to the minute
ToIsoMinutes(due) == <<"utc">> \o due

\* lines 64-72: the form data of the effect for a todo to edit
FromInitialData(todo) ==
  [title |-> todo.title,
   description |-> IF todo.description # Null /\ todo.description[1] # <<>>
                     THEN todo.description[1] ELSE <<>>,
   due_date |-> IF todo.due_date # Null /\ todo.due_date[1] # <<>>
                  THEN ToIsoMinutes(todo.due_date[1]) ELSE <<>>,
   priority |-> IF todo.priority # Null THEN todo.priority[1] ELSE "medium",
   category |-> todo.category]

\* x || "" for a string property of the parse result
OrEmpty(x) == IF Truthy(x) THEN x.v ELSE <<>>

\* dueDateValue without the default time (lines 168-170 left out)
DueDateValueNoDefault(result) ==
  IF Truthy(result.due_date)
    THEN IF Truthy(result.due_time)
           THEN result.due_date.v \o <<"T">> \o result.due_time.v
           ELSE result.due_date.v
    ELSE <<>>

\* lines 163-171
DueDateValue(result) ==
  IF Truthy(result.due_date)
    THEN IF Truthy(result.due_time)
           THEN result.due_date.v \o <<"T">> \o result.due_time.v
           ELSE result.due_date.v \o <<"T", "09:00">>
    ELSE <<>>

\* lines 173-179: generatedData
GeneratedData(result) ==
  [title |-> OrEmpty(result.title),
   description |-> <<>>,
   due_date |-> DueDateValue(result),
   priority |-> IF result.priority # "" THEN result.priority ELSE "medium",
   category |-> result.category]

\* an await of handleAiGenerate has resolved and its continuation runs before
\* any other event is handled
AiContinuationDue == aiPc.at = "submit" /\ \A c \in Range(calls) : c.n # aiPc.n

\* the form accepts input: its fields and buttons are disabled while isLoading
FormEnabled ==
  /\ page = "home"
  /\ ~isFormLoading
  /\ ~AiContinuationDue
  /\ userActions < MaxUserActions

\* lines 80-88: handleChange(field, value) of an input of the form
HandleChange(field, value) ==
  /\ FormEnabled
  /\ userActions' = userActions + 1
  /\ formData' = [formData EXCEPT ![field] = value]
  /\ UNCHANGED <<selectedCategories, aiInput, isAiGenerating, aiPc, notices>>
  /\ UNCHANGED <<session, page, user, todos, isLoadingTodos, editingTodo, isFormLoading,
                 calls>>
  /\ UNCHANGED <<parseVars, tableVars, lastCall, authVars, declined, fetchLog, viewVars>>

\* lines 93-101: toggleCategory(category)
ToggleCategory(category) ==
  /\ FormEnabled
  /\ userActions' = userActions + 1
  /\ selectedCategories' = IF category \in selectedCategories
                             THEN selectedCategories \ {category}
                             ELSE selectedCategories \cup {category}
  /\ formData' = [formData EXCEPT !.category = selectedCategories']
  /\ UNCHANGED <<aiInput, isAiGenerating, aiPc, notices>>
  /\ UNCHANGED <<session, page, user, todos, isLoadingTodos, editingTodo, isFormLoading,
                 calls>>
  /\ UNCHANGED <<parseVars, tableVars, lastCall, authVars, declined, fetchLog, viewVars>>

\* line 224: the AI textarea, disabled while isLoading or isAiGenerating
SetAiInput(text) ==
  /\ FormEnabled
  /\ ~isAiGenerating
  /\ text # aiInput
  /\ userActions' = userActions + 1
  /\ aiInput' = text
  /\ UNCHANGED <<formData, selectedCategories, isAiGenerating, aiPc, notices>>
  /\ UNCHANGED <<session, page, user, todos, isLoadingTodos, editingTodo, isFormLoading,
                 calls>>
  /\ UNCHANGED <<parseVars, tableVars, lastCall, authVars, declined, fetchLog, viewVars>>

\* lines 124-133: the reset button
HandleReset ==
  /\ FormEnabled
  /\ userActions' = userActions + 1
  /\ formData' = EmptyForm
  /\ selectedCategories' = {}
  /\ UNCHANGED <<aiInput, isAiGenerating, aiPc, notices>>
  /\ UNCHANGED <<session, page, user, todos, isLoadingTodos, editingTodo, isFormLoading,
                 calls>>
  /\ UNCHANGED <<parseVars, tableVars, lastCall, authVars, declined, fetchLog, viewVars>>

\* page.tsx lines 286-288 and the effect of lines 62-75: the edit button of a
\* card makes the todo the initialData of the form
EditTodo(id) ==
  /\ ~AiContinuationDue
  /\ OnEdit(id)
  /\ formData' = FromInitialData(Find(todos, id))
  /\ selectedCategories' = Find(todos, id).category
  /\ UNCHANGED <<aiInput, isAiGenerating, aiPc, notices>>
  /\ UNCHANGED <<parseVars, lastCall, authVars, declined, fetchLog, viewVars>>

\* lines 106-119: the form is submitted
FormHandleSubmit ==
  /\ FormEnabled
  /\ userActions' = userActions + 1
  /\ IF Trim(formData.title) = <<>>
       THEN UNCHANGED <<session, page, user, todos, isLoadingTodos, editingTodo,
                        isFormLoading, calls, tableVars>>
       ELSE OnSubmit(userActions + 1, FormInput(formData, selectedCategories))
  /\ UNCHANGED <<parseVars, lastCall, authVars, declined, fetchLog, viewVars, formVars>>

\* lines 138-153: the button '생성' (autoSubmit = FALSE) or '바로 추가' (TRUE),
\* disabled while isLoading, isAiGenerating or the text is blank; up to the
\* await of fetch, which sends the text to POST
HandleAiGenerate(autoSubmit) ==
  /\ FormEnabled
  /\ ~isAiGenerating
  /\ Trim(aiInput) # <<>>
  /\ userActions' = userActions + 1
  /\ isAiGenerating' = TRUE
  /\ aiPc' = [at |-> "parse", autoSubmit |-> autoSubmit, n |-> userActions + 1,
              editing |-> editingTodo]
  /\ notices' = <<>>
  /\ reqBody' = [k |-> "object", input |-> JsString(aiInput)]
  /\ postPc' = "received"
  /\ caughtError' = NoError
  /\ response' = NoResponse
  /\ modelCalls' = 0
  /\ listCalls' = 0
  /\ listingResult' = "none"
  /\ UNCHANGED <<apiKey, formData, selectedCategories, aiInput>>
  /\ UNCHANGED <<session, page, user, todos, isLoadingTodos, editingTodo, isFormLoading,
                 calls>>
  /\ UNCHANGED <<tableVars, lastCall, authVars, declined, fetchLog, viewVars>>

\* lines 147, 201-208: fetch rejects (the request does not reach POST)
ParseFetchRejects ==
  /\ aiPc.at = "parse"
  /\ postPc = "received"
  /\ postPc' = "off"
  /\ notices' = Append(notices, <<"fetchFailed">>)
  /\ isAiGenerating' = FALSE
  /\ aiPc' = AiIdle
  /\ UNCHANGED <<reqBody, apiKey, caughtError, response, modelCalls, listCalls, listingResult>>
  /\ UNCHANGED <<formData, selectedCategories, aiInput>>
  /\ UNCHANGED <<tableVars, lastCall, authVars, pageVars, viewVars>>

\* lines 155-200 from the answer of POST on: up to the await of onSubmit when
\* autoSubmit, to the end otherwise; lines 201-208 when the answer is not ok
HandleAiGenerateResume ==
  /\ aiPc.at = "parse"
  /\ postPc = "done"
  /\ postPc' = "off"
  /\ UNCHANGED <<reqBody, apiKey, caughtError, response, modelCalls, listCalls, listingResult>>
  /\ IF response.status # 200
       THEN /\ notices' = Append(notices, IF Truthy(response.error)
                                            THEN response.error.v
                                            ELSE <<"generateFailed">>)
            /\ isAiGenerating' = FALSE
            /\ aiPc' = AiIdle
            /\ UNCHANGED <<formData, selectedCategories, aiInput>>
            /\ UNCHANGED <<pageVars, tableVars>>
       ELSE /\ formData' = GeneratedData(response.object)
            /\ selectedCategories' = response.object.category
            /\ aiInput' = <<>>
            /\ IF aiPc.autoSubmit
                 THEN /\ notices' = Append(notices, <<"aiCreated">>)
                      /\ HandleSubmitOf(aiPc.n,
                                        FormInput(GeneratedData(response.object),
                                                  response.object.category),
                                        aiPc.editing)
                      /\ aiPc' = [aiPc EXCEPT !.at = "submit"]
                      /\ UNCHANGED <<isAiGenerating, userActions>>
                 ELSE /\ notices' = Append(notices, <<"aiCreatedConfirm">>)
                      /\ isAiGenerating' = FALSE
                      /\ aiPc' = AiIdle
                      /\ UNCHANGED <<pageVars, tableVars>>
  /\ UNCHANGED <<lastCall, authVars, declined, fetchLog, viewVars>>

\* lines 193-195 and 206-208: onSubmit has returned
HandleAiGenerateAfterSubmit ==
  /\ AiContinuationDue
  /\ formData' = EmptyForm
  /\ selectedCategories' = {}
  /\ notices' = Append(notices, <<"added">>)
  /\ isAiGenerating' = FALSE
  /\ aiPc' = AiIdle
  /\ UNCHANGED aiInput
  /\ UNCHANGED <<parseVars, tableVars, lastCall, authVars, pageVars, viewVars>>

InitForm ==
  /\ formData = EmptyForm
  /\ selectedCategories = {}
  /\ aiInput = <<>>
  /\ isAiGenerating = FALSE
  /\ aiPc = AiIdle
  /\ notices = <<>>

(***************************************************************************)
(* LoginPage and SignupPage (src/unnamed/part_000) and handleLogout of     *)
(* HomePage (src/app/page.tsx, lines 338-365).  The message of an error of *)
(* supabase.auth is the set of the phrases it includes, in lower case.     *)
(* Texts: "badCredentials" = "이메일 또는 비밀번호가 올바르지 않습니다.",    *)
(* "notConfirmed" = "이메일 인증이 완료되지 않았습니다. 이메일을              *)
(* 확인해주세요.", "tooMany" = "너무 많은 로그인 시도가 있었습니다. 잠시 후   *)
(* 다시 시도해주세요.", "loginFailed" = "로그인 중 오류가 발생했습니다. 다시  *)
(* 시도해주세요.", "mismatch" = "비밀번호가 일치하지 않습니다.", "tooShort"   *)
(* = "비밀번호는 최소 6자 이상이어야 합니다.", "alreadyRegistered" = "이미    *)
(* 가입된 이메일 주소입니다.", "invalidEmail" = "유효하지 않은 이메일         *)
(* 주소입니다.", "badPassword" = "비밀번호가 요구사항을 충족하지 않습니다.",  *)
(* "signupFailed" = "회원가입 중 오류가 발생했습니다. 다시 시도해주세요.",    *)
(* "confirmEmail" = "회원가입이 완료되었습니다! 이메일을 확인하여 계정을      *)
(* 활성화해주세요.", "signedUp" = "회원가입이 완료되었습니다!".              *)
(***************************************************************************)
\* what supabase.auth answers: { data: { user, session }, error }
AuthResult(error, hasUser, hasSession, identities, confirmationSent) ==
  [error |-> error, user |-> hasUser, session |-> hasSession, identities |-> identities,
   confirmationSent |-> confirmationSent]

NoAuthResult == AuthResult(Null, FALSE, FALSE, "none", FALSE)

AuthFailure(phrases) == AuthResult(<<phrases>>, FALSE, FALSE, "none", FALSE)

NoAuthCall == [h |-> "none", state |-> "none", result |-> NoAuthResult, from |-> "none"]

AuthSent(h, from) == [h |-> h, state |-> "sent", result |-> NoAuthResult, from |-> from]

SignInResults ==
  {AuthFailure(m) : m \in {{"invalid login credentials"}, {"email not confirmed"},
                           {"too many requests"}, {}}}
    \cup {AuthResult(Null, TRUE, TRUE, "some", FALSE)}

SignUpResults ==
  {AuthFailure(m) : m \in {{"user already registered"}, {"invalid email"}, {"password"}, {}}}
    \cup {AuthResult(Null, TRUE, FALSE, "empty", FALSE),
          AuthResult(Null, TRUE, FALSE, "some", TRUE),
          AuthResult(Null, TRUE, TRUE, "some", FALSE),
          AuthResult(Null, FALSE, FALSE, "none", FALSE)}

SignOutResults == {AuthFailure({}), NoAuthResult}

AuthResults(h) ==
  CASE h = "signIn" -> SignInResults
    [] h = "signUp" -> SignUpResults
    [] h = "signOut" -> SignOutResults

\* errorMessage.includes(phrase)
Includes(message, phrase) == phrase \in message

\* part_000 lines 464-475
LoginErrorText(message) ==
  IF \/ Includes(message, "invalid login credentials")
     \/ Includes(message, "invalid credentials")
     \/ Includes(message, "email not confirmed")
    THEN "badCredentials"
  ELSE IF Includes(message, "email not confirmed") THEN "notConfirmed"
  ELSE IF Includes(message, "too many requests") THEN "tooMany"
  ELSE "loginFailed"

\* part_000 lines 253-261
SignupErrorText(message) ==
  IF Includes(message, "user already registered") THEN "alreadyRegistered"
  ELSE IF Includes(message, "invalid email") THEN "invalidEmail"
  ELSE IF Includes(message, "password") THEN "badPassword"
  ELSE "signupFailed"

Emails == {<<>>, <<"e">>}

Passwords == {<<>>, <<"p">>, <<"p", "p", "p", "p", "p", "p">>}

\* validatePasswords without the check of the length (lines 187-190 left out)
ValidatePasswordsNoLength(password, confirmPassword) ==
  IF password # confirmPassword THEN <<"mismatch">> ELSE Null

\* part_000 lines 182-192: validatePasswords, the text it sets or <<>>
ValidatePasswords(password, confirmPassword) ==
  IF password # confirmPassword THEN <<"mismatch">>
  ELSE IF Len(password) < 6 THEN <<"tooShort">>
  ELSE Null

\* the request in flight, once the component that sent it is unmounted
Orphaned == IF authCall = NoAuthCall THEN NoAuthCall ELSE [authCall EXCEPT !.from = "gone"]

\* a login or signup page is shown afresh
EnterAuthPage(p) ==
  /\ page' = p
  /\ isLoading' = FALSE
  /\ authError' = Null
  /\ successMessage' = Null

\* router.push("/"): HomePage is mounted afresh, with its form; what the page
\* shown before was waiting for is not handled by the new one
EnterHome ==
  /\ page' = "mounting"
  /\ user' = NoUser
  /\ todos' = <<>>
  /\ isLoadingTodos' = TRUE
  /\ editingTodo' = Null
  /\ isFormLoading' = FALSE
  /\ calls' = <<>>
  /\ fetchLog' = NoFetchLog
  /\ formData' = EmptyForm
  /\ selectedCategories' = {}
  /\ aiInput' = <<>>
  /\ isAiGenerating' = FALSE
  /\ aiPc' = AiIdle
  /\ notices' = <<>>
  /\ isLoggingOut' = FALSE
  /\ isLoading' = FALSE
  /\ authError' = Null
  /\ successMessage' = Null

HomeState == <<user, todos, isLoadingTodos, editingTodo, isFormLoading, calls, fetchLog>>

\* router.push(target) from whatever page is shown
Push(target) ==
  IF target = "home"
    THEN IF page \in {"home", "mounting"}
           THEN UNCHANGED <<page, HomeState, formVars, isLoggingOut, isLoading, authError,
                            successMessage>>
           ELSE EnterHome
    ELSE IF page = target
           THEN UNCHANGED <<page, HomeState, formVars, isLoggingOut, isLoading, authError,
                            successMessage>>
           ELSE EnterAuthPage(target) /\ UNCHANGED <<HomeState, formVars, isLoggingOut>>

\* the links between the login and the signup page (part_000 lines 383, 563)
FollowLink(target) ==
  /\ page \in {"login", "signup"}
  /\ page # target
  /\ userActions < MaxUserActions
  /\ userActions' = userActions + 1
  /\ EnterAuthPage(target)
  /\ authCall' = Orphaned
  /\ UNCHANGED <<session, HomeState, redirectTimer, isLoggingOut>>
  /\ UNCHANGED <<parseVars, tableVars, lastCall, declined, viewVars, formVars>>

\* part_000 lines 438-448: the login form is submitted, up to the await (its
\* button is disabled while isLoading or a field is empty)
LoginHandleSubmit(email, password) ==
  /\ page = "login"
  /\ ~isLoading
  /\ email # <<>> /\ password # <<>>
  /\ authCall = NoAuthCall
  /\ userActions < MaxUserActions
  /\ userActions' = userActions + 1
  /\ authError' = Null
  /\ isLoading' = TRUE
  /\ authCall' = AuthSent("signIn", "login")
  /\ UNCHANGED <<session, page, HomeState, successMessage, redirectTimer, isLoggingOut>>
  /\ UNCHANGED <<parseVars, tableVars, lastCall, declined, viewVars, formVars>>

\* part_000 lines 197-218: the submit event of the signup form, up to the await
\* (the fields are required and disabled while isLoading); the handler is
\* modelled for differing passwords too, which the disabled button keeps the
\* user from submitting
SignupHandleSubmit(email, password, confirmPassword) ==
  /\ page = "signup"
  /\ ~isLoading
  /\ email # <<>> /\ password # <<>> /\ confirmPassword # <<>>
  /\ authCall = NoAuthCall
  /\ userActions < MaxUserActions
  /\ userActions' = userActions + 1
  /\ successMessage' = Null
  /\ IF ValidatePasswords(password, confirmPassword) # Null
       THEN /\ authError' = ValidatePasswords(password, confirmPassword)
            /\ UNCHANGED <<isLoading, authCall>>
       ELSE /\ authError' = Null
            /\ isLoading' = TRUE
            /\ authCall' = AuthSent("signUp", "signup")
  /\ UNCHANGED <<session, page, HomeState, redirectTimer, isLoggingOut>>
  /\ UNCHANGED <<parseVars, tableVars, lastCall, declined, viewVars, formVars>>

\* page.tsx lines 338-348: the logout button (disabled while isLoggingOut), up
\* to the await
HandleLogout(confirmed) ==
  /\ page = "home"
  /\ ~isLoggingOut
  /\ authCall = NoAuthCall
  /\ userActions < MaxUserActions
  /\ userActions' = userActions + 1
  /\ declined' = Confirm("logout", confirmed)
  /\ IF confirmed
       THEN /\ isLoggingOut' = TRUE
            /\ authCall' = AuthSent("signOut", "home")
       ELSE UNCHANGED <<isLoggingOut, authCall>>
  /\ UNCHANGED <<session, page, HomeState, isLoading, authError, successMessage,
                 redirectTimer>>
  /\ UNCHANGED <<parseVars, tableVars, lastCall, viewVars, formVars>>

\* supabase.auth answers the request: a sign-in or sign-up that yields a session
\* signs the user in, a sign-out that succeeds signs the user out
AuthAnswers(result) ==
  /\ authCall.state = "sent"
  /\ result \in AuthResults(authCall.h)
  /\ authCall' = [authCall EXCEPT !.state = "answered", !.result = result]
  /\ session' = IF result.session THEN Me
                ELSE IF authCall.h = "signOut" /\ result.error = Null THEN NoUser
                ELSE session
  /\ UNCHANGED <<page, HomeState, userActions, isLoading, authError, successMessage,
                 redirectTimer, isLoggingOut>>
  /\ UNCHANGED <<parseVars, tableVars, lastCall, declined, viewVars, formVars>>

\* the component that sent the request of authCall is still mounted
StillShown == authCall.from # "gone"

\* part_000 lines 450-480 from the await on
LoginResume ==
  /\ authCall.h = "signIn"
  /\ authCall.state = "answered"
  /\ authCall' = NoAuthCall
  /\ IF authCall.result.error # Null
       THEN IF StillShown
              THEN /\ authError' = <<LoginErrorText(authCall.result.error[1])>>
                   /\ isLoading' = FALSE
                   /\ UNCHANGED <<page, HomeState, formVars, isLoggingOut, successMessage>>
              ELSE UNCHANGED <<page, HomeState, formVars, isLoggingOut, isLoading, authError,
                               successMessage>>
       ELSE IF authCall.result.session
              THEN Push("home")
              ELSE /\ isLoading' = IF StillShown THEN FALSE ELSE isLoading
                   /\ UNCHANGED <<page, HomeState, formVars, isLoggingOut, authError,
                                  successMessage>>
  /\ UNCHANGED <<session, userActions, redirectTimer>>
  /\ UNCHANGED <<parseVars, tableVars, lastCall, declined, viewVars>>

\* part_000 lines 220-266 from the await on
SignupResume ==
  /\ authCall.h = "signUp"
  /\ authCall.state = "answered"
  /\ authCall' = NoAuthCall
  /\ LET r == authCall.result
         mounted == StillShown
     IN  IF r.error # Null
           THEN /\ authError' = IF mounted THEN <<SignupErrorText(r.error[1])>> ELSE authError
                /\ UNCHANGED <<successMessage, redirectTimer>>
         ELSE IF r.user /\ r.identities = "empty"
           THEN /\ authError' = IF mounted THEN <<"alreadyRegistered">> ELSE authError
                /\ UNCHANGED <<successMessage, redirectTimer>>
         ELSE IF r.user /\ (r.confirmationSent \/ ~r.session)
           THEN /\ successMessage' = IF mounted THEN <<"confirmEmail">> ELSE successMessage
                /\ redirectTimer' = <<"login">>
                /\ UNCHANGED authError
         ELSE IF r.user
           THEN /\ successMessage' = IF mounted THEN <<"signedUp">> ELSE successMessage
                /\ redirectTimer' = <<"home">>
                /\ UNCHANGED authError
         ELSE UNCHANGED <<authError, successMessage, redirectTimer>>
  /\ isLoading' = IF StillShown THEN FALSE ELSE isLoading
  /\ UNCHANGED <<session, page, HomeState, userActions, isLoggingOut>>
  /\ UNCHANGED <<parseVars, tableVars, lastCall, declined, viewVars, formVars>>

\* part_000 lines 238-246: the timer set by the signup page fires
RedirectFires ==
  /\ redirectTimer # Null
  /\ redirectTimer' = Null
  /\ Push(redirectTimer[1])
  /\ authCall' = IF page' # page THEN Orphaned ELSE authCall
  /\ UNCHANGED <<session, userActions>>
  /\ UNCHANGED <<parseVars, tableVars, lastCall, declined, viewVars>>

\* LogoutResume clearing isLoggingOut on the success path only (the finally of
\* lines 362-364 left out)
LogoutResumeWithoutFinally ==
  /\ authCall.h = "signOut"
  /\ authCall.state = "answered"
  /\ authCall' = NoAuthCall
  /\ isLoggingOut' = IF authCall.result.error # Null THEN isLoggingOut ELSE FALSE
  /\ IF authCall.result.error # Null \/ page = "login"
       THEN UNCHANGED <<page, isLoading, authError, successMessage>>
       ELSE EnterAuthPage("login")
  /\ UNCHANGED <<session, HomeState, userActions, redirectTimer>>
  /\ UNCHANGED <<parseVars, tableVars, lastCall, declined, viewVars, formVars>>

\* page.tsx lines 350-364 from the await on
LogoutResume ==
  /\ authCall.h = "signOut"
  /\ authCall.state = "answered"
  /\ authCall' = NoAuthCall
  /\ isLoggingOut' = FALSE
  /\ IF authCall.result.error # Null \/ page = "login"
       THEN UNCHANGED <<page, isLoading, authError, successMessage>>
       ELSE EnterAuthPage("login")
  /\ UNCHANGED <<session, HomeState, userActions, redirectTimer>>
  /\ UNCHANGED <<parseVars, tableVars, lastCall, declined, viewVars, formVars>>

InitAuth ==
  /\ authCall = NoAuthCall
  /\ isLoading = FALSE
  /\ authError = Null
  /\ successMessage = Null
  /\ redirectTimer = Null
  /\ isLoggingOut = FALSE

(***************************************************************************)
(* The status filter of filteredAndSortedTodos, lines 126-148, and its     *)
(* sort, lines 155-178.  Status names: "all" = "전체", "done" = "완료",     *)
(* "inProgress" = "진행 중", "overdue" = "지연".                            *)
(***************************************************************************)
MaxNow == 3

MaxViewTodos == 3

DueStrings == {<<"1">>, <<"2">>, <<"3">>}

\* new Date(s).getTime() for the timestamps the table returns
DateOf(s) == CASE s = <<"1">> -> 1 [] s = <<"2">> -> 2 [] s = <<"3">> -> 3

Statuses == {"inProgress", "done", "overdue"}

\* the '지연' branch comparing with <= instead of < (line 143)
StatusKeepsOverdueInclusive(status, todo, t) ==
  CASE status = "done" -> todo.completed
    [] status = "inProgress" ->
         ~todo.completed /\ (todo.due_date = Null \/ DateOf(todo.due_date[1]) >= t)
    [] status = "overdue" ->
         ~todo.completed /\ todo.due_date # Null /\ DateOf(todo.due_date[1]) <= t
    [] OTHER -> TRUE

\* lines 129-147: the callback of filtered.filter, with `now` = t
StatusKeeps(status, todo, t) ==
  CASE status = "done" -> todo.completed
    [] status = "inProgress" ->
         ~todo.completed /\ (todo.due_date = Null \/ DateOf(todo.due_date[1]) >= t)
    [] status = "overdue" ->
         ~todo.completed /\ todo.due_date # Null /\ DateOf(todo.due_date[1]) < t
    [] OTHER -> TRUE

\* Array.prototype.filter
RECURSIVE Filter(_, _, _)
Filter(list, status, t) ==
  IF list = <<>> THEN <<>>
  ELSE IF StatusKeeps(status, Head(list), t)
    THEN <<Head(list)>> \o Filter(Tail(list), status, t)
    ELSE Filter(Tail(list), status, t)

\* lines 127-148
StatusFiltered(list, status, t) == IF status # "all" THEN Filter(list, status, t) ELSE list

\* String.prototype.toLowerCase on a sequence of characters ("X" is the upper
\* case of "x")
ToLowerCase(s) == [i \in 1..Len(s) |-> IF s[i] = "X" THEN "x" ELSE s[i]]

\* s.includes(q)
StringIncludes(s, q) == \E i \in 0..(Len(s) - Len(q)) : SubSeq(s, i + 1, i + Len(q)) = q

\* the search also looking into the description (line 122 with a second operand)
SearchKeepsDescription(query, todo) ==
  \/ StringIncludes(ToLowerCase(todo.title), ToLowerCase(query))
  \/ todo.description # Null /\ StringIncludes(ToLowerCase(todo.description[1]), ToLowerCase(query))

\* lines 120-122: the callback of filtered.filter, with `query` lowered
SearchKeeps(query, todo) == StringIncludes(ToLowerCase(todo.title), ToLowerCase(query))

RECURSIVE SearchFilter(_, _)
SearchFilter(list, query) ==
  IF list = <<>> THEN <<>>
  ELSE IF SearchKeeps(query, Head(list))
    THEN <<Head(list)>> \o SearchFilter(Tail(list), query)
    ELSE SearchFilter(Tail(list), query)

\* lines 119-124
SearchFiltered(list, query) == IF Trim(query) # <<>> THEN SearchFilter(list, query) ELSE list

\* the priority filter also keeping a todo without a priority
PriorityKeepsAbsent(priority, todo) == todo.priority = Null \/ todo.priority = <<priority>>

\* line 152: todo.priority === priorityFilter
PriorityKeeps(priority, todo) == todo.priority = <<priority>>

RECURSIVE PriorityFilter(_, _)
PriorityFilter(list, priority) ==
  IF list = <<>> THEN <<>>
  ELSE IF PriorityKeeps(priority, Head(list))
    THEN <<Head(list)>> \o PriorityFilter(Tail(list), priority)
    ELSE PriorityFilter(Tail(list), priority)

\* lines 151-153
PriorityFiltered(list, priority) ==
  IF priority # "all" THEN PriorityFilter(list, priority) ELSE list

\* lines 116-153: `filtered` when the sort begins
FilteredTodos(list, query, status, priority, t) ==
  PriorityFiltered(StatusFiltered(SearchFiltered(list, query), status, t), priority)

\* !todo.due_date
NoDueDate(todo) == todo.due_date = Null \/ todo.due_date[1] = <<>>

\* the due-date comparison putting a task without a due date first (lines 165
\* and 166 exchanged)
DueDateCompareNoneFirst(a, b) ==
  IF NoDueDate(a) /\ NoDueDate(b) THEN 0
  ELSE IF NoDueDate(a) THEN -1
  ELSE IF NoDueDate(b) THEN 1
  ELSE DateOf(a.due_date[1]) - DateOf(b.due_date[1])

\* lines 163-168
DueDateCompare(a, b) ==
  IF NoDueDate(a) /\ NoDueDate(b) THEN 0
  ELSE IF NoDueDate(a) THEN 1
  ELSE IF NoDueDate(b) THEN -1
  ELSE DateOf(a.due_date[1]) - DateOf(b.due_date[1])

\* line 158: priorityOrder[p || "low"]
PriorityOrder(p) ==
  IF p = Null THEN 1
  ELSE CASE p[1] = "high" -> 3 [] p[1] = "medium" -> 2 [] OTHER -> 1

\* the sort keys the user chooses among here
SortKeys == {"due_date", "created_date"}

\* lines 156-177: the callback of filtered.sort ("title" is not modelled)
Compare(key, a, b) ==
  CASE key = "priority" -> PriorityOrder(b.priority) - PriorityOrder(a.priority)
    [] key = "due_date" -> DueDateCompare(a, b)
    [] key = "created_date" -> b.created_date - a.created_date
    [] OTHER -> 0

\* x put into a sorted list behind every entry that does not come after it
RECURSIVE Insert(_, _, _)
Insert(list, x, key) ==
  IF list = <<>> THEN <<x>>
  ELSE IF Compare(key, list[Len(list)], x) > 0
    THEN Insert(SubSeq(list, 1, Len(list) - 1), x, key) \o <<list[Len(list)]>>
    ELSE list \o <<x>>

\* Array.prototype.sort with that callback: a stable sort
RECURSIVE Sort(_, _)
Sort(list, key) ==
  IF list = <<>> THEN <<>>
  ELSE Insert(Sort(SubSeq(list, 1, Len(list) - 1), key), list[Len(list)], key)

\* lines 115-181: the memo is computed again for the new values of its
\* dependencies; it works on a copy of todos (line 116)
Memo(query, status, priority, key) ==
  /\ filtered' = FilteredTodos(todos, query, status, priority, now)
  /\ shown' = Sort(filtered', key)
  /\ todos' = todos

\* the search box sets searchQuery
SetSearchQuery(text) ==
  /\ searchQuery' = text
  /\ Memo(text, statusFilter, priorityFilter, sortBy)
  /\ UNCHANGED <<statusFilter, priorityFilter, now, sortBy>>
  /\ UNCHANGED <<session, page, user, isLoadingTodos, editingTodo, isFormLoading, calls,
                 userActions, declined, fetchLog>>
  /\ UNCHANGED <<parseVars, tableVars, lastCall, authVars, formVars>>

\* the select sets priorityFilter
SetPriorityFilter(value) ==
  /\ priorityFilter' = value
  /\ Memo(searchQuery, statusFilter, value, sortBy)
  /\ UNCHANGED <<searchQuery, statusFilter, now, sortBy>>
  /\ UNCHANGED <<session, page, user, isLoadingTodos, editingTodo, isFormLoading, calls,
                 userActions, declined, fetchLog>>
  /\ UNCHANGED <<parseVars, tableVars, lastCall, authVars, formVars>>

\* lines 445-449: the select sets statusFilter, and the memo is computed again
SetStatusFilter(value) ==
  /\ statusFilter' = value
  /\ Memo(searchQuery, value, priorityFilter, sortBy)
  /\ UNCHANGED <<searchQuery, priorityFilter, now, sortBy>>
  /\ UNCHANGED <<session, page, user, isLoadingTodos, editingTodo, isFormLoading, calls,
                 userActions, declined, fetchLog>>
  /\ UNCHANGED <<parseVars, tableVars, lastCall, authVars, formVars>>

\* time passes; the memo is not computed again
Tick ==
  /\ now < MaxNow
  /\ now' = now + 1
  /\ UNCHANGED <<searchQuery, statusFilter, priorityFilter, filtered, sortBy, shown>>
  /\ UNCHANGED <<parseVars, tableVars, lastCall, authVars, pageVars, formVars>>

\* lines 482-486: the select sets sortBy, and the memo is computed again
SetSortBy(key) ==
  /\ sortBy' = key
  /\ Memo(searchQuery, statusFilter, priorityFilter, key)
  /\ UNCHANGED <<searchQuery, statusFilter, priorityFilter, now>>
  /\ UNCHANGED <<session, page, user, isLoadingTodos, editingTodo, isFormLoading, calls,
                 userActions, declined, fetchLog>>
  /\ UNCHANGED <<parseVars, tableVars, lastCall, authVars, formVars>>

ViewRows ==
  {Row(0, Me, <<"x">>, Null, 0, due, <<"medium">>, {}, c) :
     due \in {Null} \cup {<<d>> : d \in DueStrings}, c \in BOOLEAN}

\* lists of rows with ids and creation dates 1, 2, ... (newest first)
ViewLists ==
  UNION {{[i \in 1..n |-> [f[i] EXCEPT !.id = n + 1 - i, !.created_date = n + 1 - i]] :
            f \in [1..n -> ViewRows]} : n \in 0..MaxViewTodos}

MaxSearchTodos == 3

\* what the user types into the search box
SearchQueries == {<<>>, <<" ">>, <<"x">>, <<" ", "X">>}

\* rows that differ in title, description, priority, due date and completion
SearchRows ==
  {Row(0, Me, <<"X">>, Null, 0, Null, <<"high">>, {}, FALSE),
   Row(0, Me, <<"y", " ", "x">>, Null, 0, <<<<"2">>>>, Null, {}, FALSE),
   Row(0, Me, <<"y">>, <<<<"x">>>>, 0, <<<<"1">>>>, <<"low">>, {}, TRUE),
   Row(0, Me, <<"x">>, Null, 0, <<<<"3">>>>, <<"high">>, {}, FALSE),
   Row(0, Me, <<"x">>, Null, 0, <<<<"1">>>>, <<"medium">>, {}, FALSE)}

\* lists of such rows with ids and creation dates 1, 2, ... (newest first)
SearchLists ==
  UNION {{[i \in 1..n |-> [f[i] EXCEPT !.id = n + 1 - i, !.created_date = n + 1 - i]] :
            f \in [1..n -> SearchRows]} : n \in 0..MaxSearchTodos}

InitView ==
  /\ searchQuery = <<>>
  /\ statusFilter = "all"
  /\ priorityFilter = "all"
  /\ now = 1
  /\ filtered = todos
  /\ sortBy = "created_date"
  /\ shown = Sort(todos, "created_date")

(***************************************************************************)
(* The specifications.  Each one moves its own variables and leaves the    *)
(* others at rest.                                                         *)
(***************************************************************************)
ParseAtRest ==
  /\ reqBody = [k |-> "primitive", input |-> JsUndefined]
  /\ apiKey = JsUndefined
  /\ postPc = "off"
  /\ caughtError = NoError
  /\ response = NoResponse
  /\ modelCalls = 0
  /\ listCalls = 0
  /\ listingResult = "none"

PageAtRest ==
  /\ session = Me
  /\ page = "home"
  /\ user = Me
  /\ isLoadingTodos = FALSE
  /\ editingTodo = Null
  /\ isFormLoading = FALSE
  /\ calls = <<>>
  /\ userActions = 0
  /\ declined = NoneDeclined
  /\ fetchLog = NoFetchLog

\* the HomePage handlers and the table
Init ==
  /\ InitPage
  /\ InitTable
  /\ lastCall = NoCall
  /\ InitView
  /\ ParseAtRest
  /\ InitForm
  /\ InitAuth

Next ==
  \/ CheckUserAndFetchTodos
  \/ \E s \in Slots : Serve(s)
  \/ \E s \in Slots : Fail(s)
  \/ \E s \in Slots : FetchTodosResume(s)
  \/ \E data \in TodoInputs : HandleSubmit(data)
  \/ \E s \in Slots : HandleSubmitResume(s)
  \/ \E id \in Ids : HandleToggleComplete(id)
  \/ \E s \in Slots : HandleToggleCompleteResume(s)
  \/ \E id \in Ids : HandleEdit(id)
  \/ HandleCancelEdit
  \/ \E id \in Ids, confirmed \in BOOLEAN : HandleDelete(id, confirmed)
  \/ \E s \in Slots : HandleDeleteResume(s)

Spec == Init /\ [][Next]_vars

\* the parsing endpoint
InitParseOnly ==
  /\ InitParse
  /\ PageAtRest
  /\ todos = <<>>
  /\ InitTable
  /\ lastCall = NoCall
  /\ InitView
  /\ InitForm
  /\ InitAuth

SpecParse == InitParseOnly /\ [][NextParse]_vars

\* the table under arbitrary requests
InitRLS ==
  /\ InitTable
  /\ lastCall = NoCall
  /\ PageAtRest
  /\ todos = <<>>
  /\ InitView
  /\ ParseAtRest
  /\ InitForm
  /\ InitAuth

NextRLS == AnyCall

SpecRLS == InitRLS /\ [][NextRLS]_vars

\* the status filter over a list held by the page
InitViewOnly ==
  /\ todos \in ViewLists
  /\ InitView
  /\ PageAtRest
  /\ InitTable
  /\ lastCall = NoCall
  /\ ParseAtRest
  /\ InitForm
  /\ InitAuth

NextView ==
  \/ \E value \in Statuses \cup {"all"} : SetStatusFilter(value)
  \/ \E key \in SortKeys : SetSortBy(key)
  \/ Tick

SpecView == InitViewOnly /\ [][NextView]_vars

\* the search box and the three selects over a list held by the page, at a
\* time when some of the due dates have passed
InitSearch ==
  /\ todos \in SearchLists
  /\ searchQuery = <<>>
  /\ statusFilter = "all"
  /\ priorityFilter = "all"
  /\ now = 2
  /\ filtered = todos
  /\ sortBy = "created_date"
  /\ shown = Sort(todos, "created_date")
  /\ PageAtRest
  /\ InitTable
  /\ lastCall = NoCall
  /\ ParseAtRest
  /\ InitForm
  /\ InitAuth

NextSearch ==
  \/ \E text \in SearchQueries : SetSearchQuery(text)
  \/ \E value \in Statuses \cup {"all"} : SetStatusFilter(value)
  \/ \E value \in Priorities \cup {"all"} : SetPriorityFilter(value)
  \/ \E key \in SortKeys : SetSortBy(key)

SpecSearch == InitSearch /\ [][NextSearch]_vars

\* the form on a loaded home page, with POST behind its fetch and the table
\* behind onSubmit; onSubmit is called by the form, and also as its signature
\* allows, with a TodoInput whose optional properties may be absent.  The AI
\* textarea is empty or holds a text typed before.
InitFormOnly ==
  /\ formData = EmptyForm
  /\ selectedCategories = {}
  /\ aiInput \in {<<>>, <<" ", "x">>}
  /\ isAiGenerating = FALSE
  /\ aiPc = AiIdle
  /\ notices = <<>>
  /\ InitAuth
  /\ PageAtRest
  /\ InitTable
  /\ todos = OrderByCreatedDesc({r \in InitialRows : r.user_id = Me})
  /\ lastCall = NoCall
  /\ InitView
  /\ apiKey \in {JsUndefined, JsString(<<"x">>)}
  /\ reqBody = [k |-> "primitive", input |-> JsUndefined]
  /\ postPc = "off"
  /\ caughtError = NoError
  /\ response = NoResponse
  /\ modelCalls = 0
  /\ listCalls = 0
  /\ listingResult = "none"

NextForm ==
  \/ \E e \in FormEdits : HandleChange(e[1], e[2])
  \/ \E category \in Categories : ToggleCategory(category)
  \/ \E text \in AiTexts : SetAiInput(text)
  \/ HandleReset
  \/ \E id \in Ids : EditTodo(id)
  \/ FormHandleSubmit
  \/ \E data \in TodoInputs : ~AiContinuationDue /\ HandleSubmit(data)
  \/ \E autoSubmit \in BOOLEAN : HandleAiGenerate(autoSubmit)
  \/ ParseFetchRejects
  \/ PostBegin
  \/ GenerateObjectResolves
  \/ GenerateObjectRejects
  \/ ListModelsSettles
  \/ HandleAiGenerateResume
  \/ HandleAiGenerateAfterSubmit
  \/ \E s \in Slots : ~AiContinuationDue /\ Serve(s)
  \/ \E s \in Slots : ~AiContinuationDue /\ Fail(s)
  \/ \E s \in Slots : ~AiContinuationDue /\ HandleSubmitResume(s)
  \/ \E s \in Slots : ~AiContinuationDue /\ FetchTodosResume(s)

SpecForm == InitFormOnly /\ [][NextForm]_vars

\* the whole application: the pages with the form, the parsing endpoint, the
\* table and supabase.auth
InitApp ==
  /\ InitPage
  /\ InitTable
  /\ lastCall = NoCall
  /\ InitView
  /\ InitForm
  /\ InitAuth
  /\ apiKey \in {JsUndefined, JsString(<<"x">>)}
  /\ reqBody = [k |-> "primitive", input |-> JsUndefined]
  /\ postPc = "off"
  /\ caughtError = NoError
  /\ response = NoResponse
  /\ modelCalls = 0
  /\ listCalls = 0
  /\ listingResult = "none"

\* an event of the user is handled when no continuation is due
AppActs == ~AiContinuationDue

NextApp ==
  \/ ~AiContinuationDue /\ CheckUserAndFetchTodos
  \/ \E e \in FormEdits : AppActs /\ HandleChange(e[1], e[2])
  \/ \E category \in Categories : AppActs /\ ToggleCategory(category)
  \/ \E text \in AiTexts : AppActs /\ SetAiInput(text)
  \/ AppActs /\ HandleReset
  \/ \E id \in Ids : AppActs /\ EditTodo(id)
  \/ AppActs /\ HandleCancelEdit
  \/ AppActs /\ FormHandleSubmit
  \/ \E autoSubmit \in BOOLEAN : AppActs /\ HandleAiGenerate(autoSubmit)
  \/ \E id \in Ids : AppActs /\ HandleToggleComplete(id)
  \/ \E id \in Ids, confirmed \in BOOLEAN : AppActs /\ HandleDelete(id, confirmed)
  \/ \E target \in {"login", "signup"} : AppActs /\ FollowLink(target)
  \/ \E email \in Emails, password \in Passwords :
        AppActs /\ LoginHandleSubmit(email, password)
  \/ \E email \in Emails, password \in Passwords, confirmPassword \in Passwords :
        AppActs /\ SignupHandleSubmit(email, password, confirmPassword)
  \/ \E confirmed \in BOOLEAN : AppActs /\ HandleLogout(confirmed)
  \/ ParseFetchRejects
  \/ PostBegin
  \/ GenerateObjectResolves
  \/ GenerateObjectRejects
  \/ ListModelsSettles
  \/ HandleAiGenerateResume
  \/ HandleAiGenerateAfterSubmit
  \/ \E s \in Slots : ~AiContinuationDue /\ Serve(s)
  \/ \E s \in Slots : ~AiContinuationDue /\ Fail(s)
  \/ \E s \in Slots : ~AiContinuationDue /\ FetchTodosResume(s)
  \/ \E s \in Slots : ~AiContinuationDue /\ HandleSubmitResume(s)
  \/ \E s \in Slots : ~AiContinuationDue /\ HandleToggleCompleteResume(s)
  \/ \E s \in Slots : ~AiContinuationDue /\ HandleDeleteResume(s)
  \/ \E h \in {"signIn", "signUp", "signOut"} :
        \E result \in AuthResults(h) : ~AiContinuationDue /\ AuthAnswers(result)
  \/ ~AiContinuationDue /\ LoginResume
  \/ ~AiContinuationDue /\ SignupResume
  \/ ~AiContinuationDue /\ RedirectFires
  \/ ~AiContinuationDue /\ LogoutResume

SpecApp == InitApp /\ [][NextApp]_vars

\* a request is answered, a timer fires or a continuation that is due runs:
\* the steps of NextApp that are not events of the user
Settles ==
  \/ ~AiContinuationDue /\ CheckUserAndFetchTodos
  \/ ParseFetchRejects
  \/ PostBegin
  \/ GenerateObjectResolves
  \/ GenerateObjectRejects
  \/ ListModelsSettles
  \/ HandleAiGenerateResume
  \/ HandleAiGenerateAfterSubmit
  \/ \E s \in Slots : ~AiContinuationDue /\ (Serve(s) \/ Fail(s))
  \/ \E s \in Slots : ~AiContinuationDue /\ FetchTodosResume(s)
  \/ \E s \in Slots : ~AiContinuationDue /\ HandleSubmitResume(s)
  \/ \E s \in Slots : ~AiContinuationDue /\ HandleToggleCompleteResume(s)
  \/ \E s \in Slots : ~AiContinuationDue /\ HandleDeleteResume(s)
  \/ \E h \in {"signIn", "signUp", "signOut"} :
        \E result \in AuthResults(h) : ~AiContinuationDue /\ AuthAnswers(result)
  \/ ~AiContinuationDue /\ LoginResume
  \/ ~AiContinuationDue /\ SignupResume
  \/ ~AiContinuationDue /\ RedirectFires
  \/ ~AiContinuationDue /\ LogoutResume

\* the whole application when every request is answered at some time and the
\* event loop runs what is due: while something is pending, one of the pending
\* steps is taken
SpecAppFair == InitApp /\ [][NextApp]_vars /\ WF_vars(Settles)

(***************************************************************************)
(* Claims about the status filter, checked under SpecView.                 *)
(***************************************************************************)
\* the statuses whose filter keeps the todo at index i of the list, at time t
KeptBy(list, i, t) ==
  {status \in Statuses :
     \E j \in 1..Len(StatusFiltered(list, status, t)) :
       StatusFiltered(list, status, t)[j] = list[i]}

C20_DueDateOrder ==
  sortBy = "due_date" =>
    /\ Len(shown) = Len(filtered)
    /\ TodoIds(shown) = TodoIds(filtered)
    /\ \A i, j \in 1..Len(shown) :
         i < j =>
           /\ NoDueDate(shown[i]) => NoDueDate(shown[j])
           /\ (~NoDueDate(shown[i]) /\ ~NoDueDate(shown[j])) =>
                DateOf(shown[i].due_date[1]) <= DateOf(shown[j].due_date[1])

\* a list of a task without a due date, a task due later and a task due
\* earlier, in this order, is shown in the reverse order
C20_Witness ==
  /\ sortBy = "due_date"
  /\ statusFilter = "all"
  /\ Len(todos) = 3
  /\ todos[1].due_date = Null
  /\ todos[2].due_date = <<<<"2">>>>
  /\ todos[3].due_date = <<<<"1">>>>
  /\ shown = <<todos[3], todos[2], todos[1]>>

(***************************************************************************)
(* Claims about the search and the composition of the filters, checked     *)
(* under SpecSearch.                                                       *)
(***************************************************************************)
\* the two characters are the same letter, in whatever case
SameLetter(a, b) == a = b \/ {a, b} = {"x", "X"}

\* the title of the todo contains the text, letter for letter
TitleContains(todo, text) ==
  \E i \in 1..(Len(todo.title) - Len(text) + 1) :
    \A k \in 1..Len(text) : SameLetter(todo.title[i + k - 1], text[k])

\* the text is empty or consists of spaces
Blank(text) == \A i \in 1..Len(text) : text[i] = " "

\* the todo passes the search for the text
Searched(todo, text) == Blank(text) \/ TitleContains(todo, text)

HasStatus(todo, status, t) ==
  \/ status = "all"
  \/ status = "done" /\ todo.completed
  \/ /\ status = "inProgress"
     /\ ~todo.completed
     /\ todo.due_date = Null \/ DateOf(todo.due_date[1]) >= t
  \/ /\ status = "overdue"
     /\ ~todo.completed
     /\ todo.due_date # Null
     /\ DateOf(todo.due_date[1]) < t

\* the todo has the priority; one without a priority has none of the three
HasPriority(todo, priority) == priority = "all" \/ todo.priority = <<priority>>

\* C22: whenever the view is computed, it holds exactly the tasks of the list
\* that pass the search, the status filter and the priority filter together,
\* each of them once; the sort neither adds nor drops a task of what the filters
\* kept, and the list itself is left as it is.
C22_FiltersCompose ==
  [][LET keep == {i \in 1..Len(todos') :
                    /\ Searched(todos'[i], searchQuery')
                    /\ HasStatus(todos'[i], statusFilter', now')
                    /\ HasPriority(todos'[i], priorityFilter')}
     IN  /\ todos' = todos
         /\ Len(shown') = Cardinality(keep)
         /\ Range(shown') = {todos'[i] : i \in keep}
         /\ filtered' = SelectSeq(todos', LAMBDA todo : todo \in Range(shown'))
         /\ Len(filtered') = Len(shown')]_vars

\* of three tasks, one without a priority passes the search and the status
\* filter and is dropped by the priority filter, and the two that are kept are
\* shown in another order than the list has them in
C22_Witness ==
  /\ searchQuery = <<"x">>
  /\ statusFilter = "inProgress"
  /\ priorityFilter = "high"
  /\ sortBy = "due_date"
  /\ Len(todos) = 3
  /\ todos[2].priority = Null
  /\ Searched(todos[2], searchQuery)
  /\ HasStatus(todos[2], statusFilter, now)
  /\ shown = <<todos[3], todos[1]>>

(***************************************************************************)
(* Claims about the HomePage handlers, checked under Spec.                 *)
(***************************************************************************)
\* the rows of the user in the table, as a select of the page returns them
AuthoritativeList(table, usr) == OrderByCreatedDesc({r \in table : r.user_id = usr})

\* C2: while the update of a completion toggle is on its way or its answer has
\* not been handled, the local list already shows the flag as flipped.
C2_ToggleIsOptimistic ==
  \A c \in Range(calls) :
    (c.h = "toggle" /\ c.pc = "save" /\ c.id \in TodoIds(todos)) =>
      Find(todos, c.id).completed = c.req.values.completed

\* the call c stands at an answer in this state and is resumed by the step
Resumed(c) == c \in Range(calls) /\ c.state = "answered" /\ c \notin Range(calls')

\* C3: when the re-fetch issued after a failed toggle has succeeded and no other
\* request is pending, the local list equals the authoritative list (so the
\* local flag of the task equals the flag in the table).
C3_RefetchReconciles ==
  [][\A c \in Range(calls) :
       (Resumed(c) /\ c.h = "toggle" /\ c.pc = "fetch" /\ ~c.result.error /\ calls' = <<>>) =>
         todos' = AuthoritativeList(db', user')]_vars

\* the todo is not completed and its due date lies before t
Overdue(todo, t) == ~todo.completed /\ todo.due_date # Null /\ DateOf(todo.due_date[1]) < t

\* the filter for `status` keeps the todo with this id when applied to list at t
Shows(list, status, id, t) == id \in TodoIds(StatusFiltered(list, status, t))

\* the step is the table answering the call c without an error
Accepted(c) ==
  /\ c \in Range(calls)
  /\ c.state = "sent"
  /\ Len(calls') = Len(calls)
  /\ \E s \in 1..Len(calls) :
       calls[s] = c /\ calls'[s].state = "answered" /\ ~calls'[s].result.error

C15_RefetchEqualsStore ==
  [][/\ db' # db =>
          \E c \in Range(calls) : Accepted(c) /\ c.req.kind \in {"insert", "update", "delete"}
     /\ \A c \in Range(calls) :
          /\ (Accepted(c) /\ c.pc = "fetch") =>
               \E s \in 1..Len(calls) :
                 calls[s] = c /\ calls'[s].result.rows = AuthoritativeList(db, user)
          /\ (Resumed(c) /\ c.pc = "fetch" /\ ~c.result.error
                /\ c.result.rows = AuthoritativeList(db, user)) =>
               todos' = AuthoritativeList(db', user')]_vars

\* a toggle has been handled, then a create was submitted and accepted; with
\* nothing else in flight, its fetch, answered from the current table, is about
\* to replace a list that differs from it
C15_Witness ==
  /\ Len(calls) = 1
  /\ calls[1].pc = "fetch"
  /\ calls[1].state = "answered"
  /\ ~calls[1].result.error
  /\ calls[1].result.rows = AuthoritativeList(db, user)
  /\ calls[1].result.rows # todos
  /\ todos # <<>>
  /\ calls[1].h = "submit"
  /\ calls[1].n = userActions
  /\ Cardinality(db) > Cardinality(InitialRows)
  /\ \E i \in 1..Len(todos) : todos[i].completed /\ todos[i] \in db

\* in this step the user declines the confirm() of handleDelete
DeleteDeclined == declined'.delete = declined.delete + 1

\* the requests to the table that this step sends
NewCalls == {c \in Range(calls') : c.state = "sent"} \ Range(calls)

\* C17: when the confirm() of handleDelete is declined, no request is sent and
\* the list and the edit state stay; a delete request is sent only by a user
\* action whose confirm() is not declined, it is the only request of the step
\* and the list and the edit state stay until the answer; the continuation of
\* handleDelete leaves the list and the edit state as they are after a failed
\* delete and removes the task after a delete without error; and a task leaves
\* the list only by that removal or by a list fetch replacing the list.
C17_DeleteNeedsConfirmation ==
  [][/\ DeleteDeclined =>
          NewCalls = {} /\ calls' = calls /\ todos' = todos /\ editingTodo' = editingTodo
     /\ \A d \in NewCalls :
          d.req.kind = "delete" =>
            /\ ~DeleteDeclined
            /\ userActions' = userActions + 1
            /\ d.n = userActions'
            /\ NewCalls = {d}
            /\ todos' = todos
            /\ editingTodo' = editingTodo
     /\ \A c \in Range(calls) :
          Resumed(c) /\ c.h = "delete" =>
            IF c.result.error
              THEN todos' = todos /\ editingTodo' = editingTodo
              ELSE todos' = WithoutId(todos, c.id)
     /\ \A id \in TodoIds(todos) \ TodoIds(todos') :
          \E c \in Range(calls) :
            /\ Resumed(c)
            /\ ~c.result.error
            /\ c.pc = "fetch" \/ (c.h = "delete" /\ c.id = id)
    ]_vars

\* the user has declined a deletion while a confirmed delete of a task has
\* failed and is about to be handled: the task is still in the list
C17_Witness ==
  /\ declined.delete > 0
  /\ \E c \in Range(calls) :
       /\ c.h = "delete" /\ c.state = "answered" /\ c.result.error
       /\ c.id \in TodoIds(todos)

\* the two rows agree on every column outside cols
SameExcept(r, q, cols) == \A c \in Columns \ cols : r[c] = q[c]

\* every row of the table is still there, changed at most in the columns cols
\* when its id is the one addressed, and not at all otherwise
OnlyWrites(id, cols) ==
  /\ Cardinality(db') = Cardinality(db)
  /\ \A r \in db :
       \E q \in db' :
         q.id = r.id /\ SameExcept(r, q, cols) /\ (r.id # id => q = r)

C29_EditedTaskIsListed ==
  (page = "home" /\ calls = <<>> /\ editingTodo # Null) =>
    editingTodo[1].id \in TodoIds(todos)

ToggleInFlight(id) == \E c \in Range(calls) : c.h = "toggle" /\ c.id = id

\* C25: for every task of the local list with no toggle in flight, the completed
\* flag of the list equals the completed flag of its row in the table; so it
\* does after two toggles of the task, the second started before the first was
\* answered, both accepted by the table.
C25_ToggleFlagsAgree ==
  \A i \in 1..Len(todos) :
    ~ToggleInFlight(todos[i].id) =>
      \A r \in db : r.id = todos[i].id => r.completed = todos[i].completed

\* the completed flags the list shows for the task with this id (none when the
\* task is not in the list)
FlagsOf(list, id) == {list[i].completed : i \in {j \in 1..Len(list) : list[j].id = id}}

\* C26: when the answer of a list fetch is applied, a fetch issued before it
\* and still in flight does not replace the list afterwards, so that after
\* both the list is the result of the one issued last; and an answer computed
\* before a local patch of a task (a toggle or a delete) leaves that task as the
\* patch left it.
C26_LatestFetchWins ==
  [][\A c \in Range(calls) :
       (Resumed(c) /\ c.pc = "fetch" /\ ~c.result.error) =>
         /\ c.n \in fetchLog.superseded => todos' = todos
         /\ \A p \in fetchLog.undoes :
              p[1] = c.n => FlagsOf(todos', p[2]) = FlagsOf(todos, p[2])]_vars

\* C4: every request the page has sent to the table is scoped to the signed-in
\* user: select, update and delete filter on user_id = user.id, insert sets
\* user_id = user.id.
C4_RequestsAreOwnerScoped ==
  \A c \in Range(calls) :
    /\ user = session
    /\ user # NoUser
    /\ c.req.kind \in {"select", "insert", "update", "delete"}
    /\ c.req.kind \in {"select", "update", "delete"} => c.req.eqUserId = <<user>>
    /\ c.req.kind = "insert" => ("user_id" \in c.req.sets /\ c.req.values.user_id = user)

C4_Witness ==
  /\ \E c \in Range(calls) : c.req.kind = "update" /\ c.h = "toggle"
  /\ \E c \in Range(calls) : c.req.kind = "insert"

(***************************************************************************)
(* Claims about the row-level policies, checked under SpecRLS.             *)
(***************************************************************************)
\* C5: no request of a caller reads, changes, creates or deletes a row owned by
\* somebody else, and an insert with somebody else's user_id is rejected.
C5_RowsOfOthersUntouched ==
  [][LET uid == lastCall'.uid
         req == lastCall'.req
         res == lastCall'.result
     IN  /\ {r \in db' : r.user_id # uid} = {r \in db : r.user_id # uid}
         /\ \A i \in 1..Len(res.rows) : res.rows[i].user_id = uid
         /\ (req.kind = "insert" /\ "user_id" \in req.sets /\ req.values.user_id # uid) =>
              (res.error /\ db' = db)]_vars

C5_Witness ==
  /\ lastCall.uid = Me
  /\ lastCall.req.kind = "update"
  /\ lastCall.req.eqUserId = Null
  /\ lastCall.req.sets = {"user_id"}
  /\ lastCall.req.values.user_id = Other
  /\ lastCall.result.error
  /\ \E r \in db : r.user_id = Other
  /\ \E r \in db : r.user_id = Me

(***************************************************************************)
(* Claims about TodoForm, checked under SpecForm.                          *)
(***************************************************************************)
\* the insert and update requests the page has sent that carry a title
TitledRequests ==
  {c.req : c \in {d \in Range(calls) : d.req.kind \in {"insert", "update"}
                                        /\ "title" \in d.req.sets}}

\* C12: no insert or update request is sent to the table with a title that is
\* empty or blank, whether it comes from the manual submit, from the AI fill
\* followed by a submit, or from the AI immediate add.
C12_NoBlankTitleSent ==
  \A req \in TitledRequests : Trim(req.values.title) # <<>>

\* C27: the immediate add of the AI section sends an insert and nothing else,
\* also while a task is being edited, and the continuation of its save leaves
\* the edit state as it is.
C27_AiAddInserts ==
  [][/\ (aiPc.at = "parse" /\ aiPc.autoSubmit /\ aiPc'.at = "submit") =>
          /\ NewCalls # {}
          /\ \A d \in NewCalls : d.req.kind = "insert"
     /\ \A c \in Range(calls) :
          (Resumed(c) /\ c.h = "submit" /\ c.pc = "save" /\ aiPc.at = "submit" /\ c.n = aiPc.n) =>
            editingTodo' = editingTodo]_vars

\* C28: when the save of an immediate add has failed, the continuation of
\* handleAiGenerate leaves the generated fields in the form and shows no
\* "할 일이 추가되었습니다!" notice.
C28_ResetOnlyAfterCreate ==
  [][(/\ AiContinuationDue
      /\ aiPc'.at = "idle"
      /\ <<"saveFailed">> \in Range(notices)) =>
        /\ formData' = formData
        /\ selectedCategories' = selectedCategories
        /\ <<"added">> \notin Range(notices')]_vars

\* a property of the parse result that is missing or the empty string
Missing(x) == x = JsUndefined \/ x = JsString(<<>>)

\* the due value the AI flow is to produce for a parse result, in the three
\* cases of the claim (TRUE elsewhere)
DueAsClaimed(result, due) ==
  /\ (~Missing(result.due_date) /\ Missing(result.due_time)) =>
       due = result.due_date.v \o <<"T", "09:00">>
  /\ (Missing(result.due_date) /\ Missing(result.due_time)) => due = <<>>
  /\ (~Missing(result.due_date) /\ ~Missing(result.due_time)) =>
       due = result.due_date.v \o <<"T">> \o result.due_time.v

\* C13: when handleAiGenerate handles a 200 answer, the due value of the form
\* is <due_date>T09:00 for a result with a date and no time, empty for a result
\* with neither, <due_date>T<due_time> for a result with both; with autoSubmit
\* the request sent carries the same value (NULL for the empty one), and an
\* insert the table accepts stores the value of its request.
C13_AiDueValue ==
  [][/\ (aiPc.at = "parse" /\ postPc = "done" /\ response.status = 200 /\ postPc' = "off") =>
          /\ DueAsClaimed(response.object, formData'.due_date)
          /\ aiPc.autoSubmit =>
               /\ Len(calls') = Len(calls) + 1
               /\ LET req == calls'[Len(calls')].req
                  IN  /\ req.kind \in {"insert", "update"}
                      /\ "due_date" \in req.sets
                      /\ req.values.due_date =
                           (IF formData'.due_date = <<>> THEN Null ELSE <<formData'.due_date>>)
     /\ \A r \in db' \ db :
          (\A q \in db : q.id # r.id) =>
            \E c \in Range(calls) :
              c.state = "sent" /\ c.req.kind = "insert" /\ r.due_date = c.req.values.due_date]_vars

C13_Witness ==
  /\ formData.due_date = <<"D", "T", "09:00">>
  /\ \E r \in db : r.due_date = <<<<"D", "T", "09:00">>>>
  /\ aiPc.at = "submit"
\* the input gives no priority: the property is absent, or the empty string
NoPriority(data) == data.priority = <<>> \/ data.priority = <<"">>

\* C19: a row that appears in the table under a new id is not completed and has
\* one of the three priorities; the row an accepted insert of handleSubmit adds
\* has the priority of the input, and medium when the input gives none.
C19_CreatedTaskDefaults ==
  [][/\ \A q \in db' :
          (\A r \in db : r.id # q.id) =>
            ~q.completed /\ q.priority # Null /\ q.priority[1] \in Priorities
     /\ \A c \in Range(calls) :
          (Accepted(c) /\ c.req.kind = "insert") =>
            \E q \in db' \ db :
              /\ db' = db \cup {q}
              /\ \A r \in db : r.id # q.id
              /\ q.priority = IF NoPriority(c.data) THEN <<"medium">> ELSE c.data.priority
    ]_vars

\* the table has accepted the insert of an input that gives no priority and
\* holds the new row
C19_Witness ==
  \E c \in Range(calls) :
    /\ c.req.kind = "insert" /\ c.state = "answered" /\ ~c.result.error
    /\ NoPriority(c.data)
    /\ \E q \in db : q.id = nextId - 1 /\ q.title = c.data.title /\ ~q.completed

(***************************************************************************)
(* Claims about the application as a whole, checked under SpecApp.         *)
(***************************************************************************)
\* this step sends the text of the AI textarea to POST
ParseSent == aiPc'.at = "parse" /\ aiPc.at # "parse"

\* this step sends a request to supabase.auth
AuthRequestSent == authCall'.state = "sent" /\ authCall.state # "sent"

AnythingSent == NewCalls # {} \/ ParseSent \/ AuthRequestSent

\* this step handles the failure of the AI parse: a rejected fetch or an answer
\* that is not ok
ParseFailureHandled ==
  /\ aiPc.at = "parse"
  /\ aiPc'.at # "parse"
  /\ postPc = "received" \/ response.status # 200

\* this step handles the failure of a sign-in, sign-up or sign-out
AuthFailureHandled ==
  /\ authCall.state = "answered"
  /\ authCall.result.error # Null
  /\ authCall' = NoAuthCall

\* this step continues after an answer without error: handleSubmit goes on to
\* fetchTodos, handleAiGenerate with autoSubmit goes on to onSubmit
SuccessFollowUp ==
  \/ \E c \in Range(calls) :
        Resumed(c) /\ ~c.result.error /\ c.h = "submit" /\ c.pc = "save"
  \/ aiPc.at = "parse" /\ aiPc.autoSubmit /\ postPc = "done" /\ response.status = 200

\* C16: a step that handles a failed request sends nothing, except that
\* handling a failed toggle sends one list fetch, and nothing else; handling
\* the failure of that fetch sends nothing.  Every request is sent by a step
\* that is a user action, the effect on mount, the continuation after an answer
\* without error, or the handling of a failed toggle.
C16_NoAutomaticRetry ==
  [][/\ \A c \in Range(calls) :
          Resumed(c) /\ c.result.error =>
            /\ ~ParseSent
            /\ ~AuthRequestSent
            /\ IF c.h = "toggle" /\ c.pc = "save"
                 THEN /\ Cardinality(NewCalls) <= 1
                      /\ \A d \in NewCalls : d.pc = "fetch" /\ d.req.kind = "select"
                 ELSE NewCalls = {}
     /\ ParseFailureHandled => ~AnythingSent
     /\ AuthFailureHandled => ~AnythingSent
     /\ AnythingSent =>
          \/ userActions' = userActions + 1
          \/ page = "mounting" /\ page' = "home"
          \/ SuccessFollowUp
          \/ \E c \in Range(calls) :
                Resumed(c) /\ c.result.error /\ c.h = "toggle" /\ c.pc = "save"
    ]_vars

\* the list fetch sent after a failed toggle has failed too and is about to be
\* handled
C16_Witness ==
  \E c \in Range(calls) :
    c.h = "toggle" /\ c.pc = "fetch" /\ c.state = "answered" /\ c.result.error

\* the text the sign-in page is to show for an error with this message
LoginTextClaimed(message) ==
  IF Includes(message, "email not confirmed") THEN "notConfirmed"
  ELSE IF Includes(message, "invalid login credentials") THEN "badCredentials"
  ELSE IF Includes(message, "too many requests") THEN "tooMany"
  ELSE "loginFailed"

\* C23: when the sign-in page handles a failed sign-in, it shows the
\* unconfirmed-email text for an error that includes "email not confirmed", the
\* invalid-credentials text for "invalid login credentials", the rate-limit text
\* for "too many requests", and the generic sign-in text for any other error.
C23_LoginErrorMapping ==
  [][(/\ authCall.h = "signIn"
      /\ authCall.state = "answered"
      /\ authCall.result.error # Null
      /\ authCall.from = "login"
      /\ authCall' = NoAuthCall) =>
        authError' = <<LoginTextClaimed(authCall.result.error[1])>>]_vars

\* this step is the sign-up page handling an answer with a user and no error
SignupUserHandled ==
  /\ authCall.h = "signUp"
  /\ authCall.state = "answered"
  /\ authCall' = NoAuthCall
  /\ authCall.result.error = Null
  /\ authCall.result.user

\* the page that sent the sign-up is still shown and gets this success message
ShowsSuccess(text) == authCall.from = "signup" => successMessage' = <<text>>

\* this step is a submit of the sign-up form whose passwords differ or are
\* shorter than 6 characters
BadPasswordsSubmitted ==
  \E email \in Emails, password \in Passwords, confirmPassword \in Passwords :
    /\ password # confirmPassword \/ Len(password) < 6
    /\ SignupHandleSubmit(email, password, confirmPassword)

\* the timer of the sign-up page fires in this step and the page named is shown
RedirectArrives ==
  (redirectTimer # Null /\ redirectTimer' = Null) =>
    IF redirectTimer[1] = "login" THEN page' = "login" ELSE page' \in {"mounting", "home"}

HandlerDone(c) == Resumed(c) /\ \A d \in Range(calls') : d.n # c.n

\* each handler clears the busy flag it has set when it ends (a HomePage that
\* is mounted afresh drops the calls of the one before)
BusyFlagCleared ==
  /\ \A c \in Range(calls) :
       (c.pc = "fetch" /\ Resumed(c) /\ page' # "mounting") => ~isLoadingTodos'
  /\ \A c \in Range(calls) :
       (c.h = "submit" /\ HandlerDone(c) /\ page' # "mounting") => ~isFormLoading'
  /\ (aiPc.at # "idle" /\ aiPc'.at = "idle") => ~isAiGenerating'
  /\ (authCall.h = "signOut" /\ authCall' = NoAuthCall) => ~isLoggingOut'
  /\ (authCall.h \in {"signIn", "signUp"} /\ authCall' = NoAuthCall) => ~isLoading'

\* a busy flag of the page that is shown is set
SomeBusy ==
  \/ page = "home" /\ (isLoadingTodos \/ isFormLoading \/ isAiGenerating \/ isLoggingOut)
  \/ page \in {"login", "signup"} /\ isLoading

\* C30: each busy flag (isLoadingTodos, isFormLoading, isAiGenerating,
\* isLoggingOut, isLoading of the login and the signup form) is cleared by the
\* step that ends the handler which set it, whether the request succeeded or
\* failed; and when every request is answered, a flag that is set is cleared
\* later, all flags of the page shown being clear then: none stays set forever.
C30_BusyFlagsCleared ==
  /\ [][BusyFlagCleared]_vars
  /\ SomeBusy ~> ~SomeBusy

\* an immediate add whose save has failed is over: handleSubmit and
\* handleAiGenerate have ended on the failure path and no flag is set
C30_Witness ==
  /\ page = "home"
  /\ <<"saveFailed">> \in Range(notices)
  /\ aiPc.at = "idle"
  /\ calls = <<>>
  /\ ~isFormLoading /\ ~isAiGenerating /\ ~isLoadingTodos

====
